---- MODULE Spec2Model ----
\* Verification model of the peer discovery and messaging core:
\*   communication.ts (src/unnamed/part_002)  connection pool, framing, de-framer,
\*                                            duplicate-instance guard, listener
\*   peerManager.ts   (src/unnamed/part_001)  peer registry
\*   discovery.ts     (src/unnamed/part_000)  advertisement and browser
\*   p2pService.ts    (src/src/p2p)           start, broadcast, stop
\*   config.ts        (src/unnamed/part_005)  message delimiter
\* and of the countdown timers:
\*   timer-manager.ts  (src/unnamed/part_008) the timers map and its identifiers
\*   timer-instance.ts (src/unnamed/part_009) one countdown
\*   http.ts           (src/src/http.ts)      the timer routes
\* The specifications share the module, one per component:
\*   SpecPool  - the outbound connection pool (connectToPeer, closeAllConnections)
\*   SpecReg   - the peer registry (PeerManager.addPeer / removePeer)
\*   SpecFrame - sendMessage -> TCP byte stream -> 'data' handler of the listener
\*   SpecGuard - createTcpServer with its duplicate-instance guard
\*   SpecSvc   - P2PService.start / stop with discovery and the browser events
\*   SpecBcast - P2PService.broadcast over the outbound pool
\*   SpecSend  - sendMessage on a socket in any state
\*   SpecConn  - the sockets accepted and dialed, and the events they deliver
\*   SpecTimers    - TimerManager: loadFromFile, getOrCreateTimer, removeTimer
\*   SpecCountdown - the timer routes over TimerInstance and its interval
\*   SpecLock  - acquireLock of two processes, one file-system call per step
\*   SpecPid   - createPidFile of two processes, one file-system call per step
\*   SpecProbe - createTcpServer with the port probe, one listen or close per step
\*   SpecCb    - the connection listener with user callbacks that throw
EXTENDS Integers, Sequences, FiniteSets, TLC

VARIABLES
    \* ---- outbound pool (communication.ts) ----
    sockets,              \* every net.Socket created by connectToPeer, in creation order
    outgoingConnections,  \* Map<fqdn, net.Socket>; 0 = no entry
    last,                 \* history: the operation of the latest step
    \* ---- peer registry (peerManager.ts) ----
    peers,                \* Map<fqdn, Service>, as its entries in insertion order
    emitted,              \* history: the events emitted by the PeerManager, in order
    call,                 \* history: the latest registry call
    \* ---- framing (communication.ts) ----
    wire,                 \* bytes written to the TCP stream and not yet read
    buffer,               \* the connection handler's `buffer` (text)
    dispatched,           \* history: the messages handed to onDataCallback, in order
    sent,                 \* history: the payloads written by sendMessage, in order
    stream,               \* history: the bytes read so far, in order
    rcvd,                 \* history: the text the 'data' handler decoded from its reads
    lastRead,             \* history: the bytes of the latest read
    serverClients,        \* Map<socketId, net.Socket>: the ids present
    sockState,            \* the accepted socket: "none", "open", "ended", "closed"
    nRaw,                 \* history: the number of writes not made by sendMessage
    \* ---- duplicate-instance guard and listener (communication.ts) ----
    lockFile,             \* content of LOCK_FILE: "absent", "empty" or the pid written
    pidFile,              \* content of PIDFILE: "absent", "empty" or the pid written
    alive,                \* the other processes of the host that are running
    otherBound,           \* the ports other processes listen on
    listening,            \* the ports this process's TCP servers listen on
    exitHandlers,         \* the files the registered process 'exit' handlers unlink
    gcall,                \* history: the latest createTcpServer call and its result
    \* ---- P2PService and discovery (p2pService.ts, discovery.ts) ----
    bonjourInstance,      \* discovery.ts `bonjourInstance`: 0 = null, else the instance
    nBonjour,             \* the Bonjour instances created so far
    publishedService,     \* discovery.ts `publishedService`: NoAdvert = null
    adverts,              \* the advertisements the discovery library answers for
    browsers,             \* the browsers the discovery library runs, with their closure
    subs,                 \* the number of peerUp listeners on the PeerManager
    starts,               \* the start() calls waiting on createTcpServer: its results
    stopCbs,              \* the publishedService.stop callbacks not yet invoked
    svc,                  \* history: the latest step of P2PService
    \* ---- P2PService.broadcast (p2pService.ts) ----
    bcast,                \* the broadcast call in progress: its position and outcomes
    \* ---- sendMessage on a given socket (communication.ts) ----
    sk,                   \* the socket: "open", "ended" (not writable) or "destroyed"
    written,              \* the chunks written to the socket, in order
    snd,                  \* history: the latest sendMessage call and its result
    \* ---- the sockets of the listener and of connectToPeer (communication.ts) ----
    conns,                \* every socket accepted or dialed, in order of creation
    clientTable,          \* serverClients as Map<socketId, socket>: 0 = no entry
    delivered,            \* history: the onDataCallback calls, in order
    \* ---- timers (timer-manager.ts, timer-instance.ts, http.ts) ----
    timers,               \* Map<string | number, TimerInstance> of the TimerManager
    loaded,               \* initializeManager has read the storage file
    orphans,              \* intervals still set on instances the Map lost
    tcall,                \* history: the latest timer operation and its result
    \* ---- acquireLock and createPidFile step by step (communication.ts) ----
    lkFile,               \* LOCK_FILE: the file the name refers to, NoFile if none
    lkIno,                \* the files made under the name LOCK_FILE so far
    lkProc,               \* per process: where it is in acquireLock, and its result
    pfFile,               \* PIDFILE: the file the name refers to, NoFile if none
    pfIno,                \* the files made under the name PIDFILE so far
    pfProc,               \* per process: where it is in createPidFile, and its result
    \* ---- the port probe of createTcpServer step by step (communication.ts) ----
    portOwner,            \* per port: the listener the OS has bound on it
    probe,                \* the createTcpServer call with method "port" in progress
    \* ---- the connection listener with callbacks that throw (communication.ts) ----
    cbSock,               \* the accepted socket, its serverClients entry and `buffer`
    cbCalls,              \* history: the calls of the user's callbacks, in order
    escaped               \* the event whose callback let an exception out, or "none"

poolVars  == <<sockets, outgoingConnections, last>>
regVars   == <<peers, emitted, call>>
frameVars == <<wire, buffer, dispatched, sent, stream, rcvd, lastRead,
               serverClients, sockState, nRaw>>
guardVars == <<lockFile, pidFile, alive, otherBound, listening, exitHandlers, gcall>>
svcVars   == <<bonjourInstance, nBonjour, publishedService, adverts, browsers, subs,
               starts, stopCbs, svc>>
bcastVars == <<bcast>>
sendVars  == <<sk, written, snd>>
connVars  == <<conns, clientTable, delivered>>
timerVars == <<timers, loaded, orphans, tcall>>
stepVars  == <<lkFile, lkIno, lkProc, pfFile, pfIno, pfProc>>
probeVars == <<portOwner, probe>>
cbVars    == <<cbSock, cbCalls, escaped>>
tailVars  == <<probeVars, cbVars>>
lateVars  == <<timerVars, stepVars, tailVars>>
restVars  == <<bcastVars, sendVars, connVars, lateVars>>
earlyVars == <<poolVars, regVars, frameVars, guardVars, svcVars, bcastVars, sendVars,
               connVars>>
exceptTimer == <<earlyVars, stepVars, tailVars>>
exceptStep  == <<earlyVars, timerVars, tailVars>>
exceptProbe == <<earlyVars, timerVars, stepVars, cbVars>>
exceptCb    == <<earlyVars, timerVars, stepVars, probeVars>>
extVars   == <<guardVars, svcVars, restVars>>
exceptGuard == <<poolVars, regVars, frameVars, svcVars, restVars>>
vars      == <<poolVars, regVars, frameVars, extVars>>

----------------------------------------------------------------------------
\* Bounds of the model

MaxSockets == 3      \* sockets dialed in one run of SpecPool
MaxEvents  == 3      \* events emitted in one run of SpecReg
MaxWrites  == 2      \* writes to the TCP stream in one run of SpecFrame
MaxStarts  == 2      \* calls of createTcpServer in one run of SpecGuard
MaxStops   == 2      \* publishedService.stop callbacks pending at a time in SpecSvc
MaxBrowse  == 2      \* events emitted by the PeerManager in one run of SpecSvc
MaxSends   == 2      \* calls of sendMessage in one run of SpecSend
MaxConns   == 2      \* sockets accepted or dialed in one run of SpecConn
MaxFrames  == 1      \* frames received in one run of SpecConn
MaxBurst   == 2      \* writes of the client before a 'data' event in SpecCb
MaxTime    == 2      \* the largest time a timer is set to in SpecTimers

----------------------------------------------------------------------------
\* The outbound connection pool: connectToPeer, closeAllConnections

PeerKeys == {"p1", "p2"}                  \* peer.fqdn of the peers dialed

\* op: the step; sock: its socket; ret: the socket a connectToPeer promise resolved
\* with in this step (0: none); dialed: the step created a socket; after: for a
\* connectToPeer call, the step that preceded it if that step was on the same peer
NoOp == [op |-> "none", peer |-> "-", sock |-> 0, ret |-> 0, dialed |-> FALSE,
         after |-> "none"]

\* a socket returned by net.createConnection: still connecting, promise pending
NewSocket(p) ==
    [peer |-> p, status |-> "connecting", pendErr |-> FALSE, pendClose |-> FALSE,
     promise |-> "pending", errHandled |-> FALSE]

SockIds == 1..Len(sockets)

Destroyed(s) == sockets[s].status = "destroyed"      \* socket.destroyed

PoolInit ==
    /\ sockets = <<>>
    /\ outgoingConnections = [p \in PeerKeys |-> 0]
    /\ last = NoOp

\* ---- connectToPeer (lines 227-254) ----

\* Mutation of Reusable: the pool is never consulted, every call dials.
ReusableNever(p) == 0

\* lines 230-234: the pooled socket connectToPeer returns without dialing, 0 if none
Reusable(p) ==
    IF outgoingConnections[p] # 0 /\ ~Destroyed(outgoingConnections[p])
    THEN outgoingConnections[p]
    ELSE 0

\* Mutation of PoolAfterError: the 'error' handler leaves the pool entry.
PoolAfterErrorKeep(s) == outgoingConnections

\* line 249: outgoingConnections.delete(peerFqdn) in the 'error' handler
PoolAfterError(s) == [outgoingConnections EXCEPT ![sockets[s].peer] = 0]

\* line 252: outgoingConnections.delete(peerFqdn) in the 'close' handler
PoolAfterClose(s) == [outgoingConnections EXCEPT ![sockets[s].peer] = 0]

\* The call connectToPeer(peer): either resolves at once with the pooled socket
\* (lines 230-234) or drops a destroyed entry (line 235) and dials (lines 238-246).
ConnectToPeerBody(p) ==
    IF Reusable(p) # 0
    THEN /\ last' = [op |-> "connect", peer |-> p, sock |-> Reusable(p),
                     ret |-> Reusable(p), dialed |-> FALSE,
                     after |-> IF last.peer = p THEN last.op ELSE "none"]
         /\ UNCHANGED <<sockets, outgoingConnections>>
    ELSE /\ Len(sockets) < MaxSockets
         /\ sockets' = Append(sockets, NewSocket(p))
         /\ outgoingConnections' = [outgoingConnections EXCEPT ![p] = 0]
         /\ last' = [op |-> "connect", peer |-> p, sock |-> Len(sockets) + 1,
                     ret |-> 0, dialed |-> TRUE,
                     after |-> IF last.peer = p THEN last.op ELSE "none"]

ConnectToPeer(p) == ConnectToPeerBody(p) /\ UNCHANGED <<regVars, frameVars, extVars>>

\* lines 241-245: the connect listener of net.createConnection; the dial succeeded
OnConnect(s) ==
    /\ sockets[s].status = "connecting"
    /\ sockets' = [sockets EXCEPT ![s].status = "open", ![s].promise = "resolved"]
    /\ outgoingConnections' = [outgoingConnections EXCEPT ![sockets[s].peer] = s]
    /\ last' = [op |-> "connected", peer |-> sockets[s].peer, sock |-> s,
                ret |-> s, dialed |-> FALSE, after |-> "none"]
    /\ UNCHANGED <<regVars, frameVars, extVars>>

\* The network fails a socket, during the dial or once established: node destroys
\* it and queues 'error' followed by 'close'.
SocketFails(s) ==
    /\ sockets[s].status \in {"connecting", "open"}
    /\ sockets' = [sockets EXCEPT ![s].status = "destroyed",
                                  ![s].pendErr = TRUE, ![s].pendClose = TRUE]
    /\ last' = [op |-> "fail", peer |-> sockets[s].peer, sock |-> s,
                ret |-> 0, dialed |-> FALSE, after |-> "none"]
    /\ UNCHANGED <<outgoingConnections, regVars, frameVars, extVars>>

\* The remote end closes an established socket: destroyed, 'close' queued.
RemoteCloses(s) ==
    /\ sockets[s].status = "open"
    /\ sockets' = [sockets EXCEPT ![s].status = "destroyed", ![s].pendClose = TRUE]
    /\ last' = [op |-> "remoteClose", peer |-> sockets[s].peer, sock |-> s,
                ret |-> 0, dialed |-> FALSE, after |-> "none"]
    /\ UNCHANGED <<outgoingConnections, regVars, frameVars, extVars>>

\* lines 248-251: socket.on("error"): delete the pool entry of the key, reject
OnError(s) ==
    /\ sockets[s].pendErr
    /\ outgoingConnections' = PoolAfterError(s)
    /\ sockets' = [sockets EXCEPT
                     ![s].pendErr = FALSE,
                     ![s].errHandled = TRUE,
                     ![s].promise = IF @ = "pending" THEN "rejected" ELSE @]
    /\ last' = [op |-> "error", peer |-> sockets[s].peer, sock |-> s,
                ret |-> 0, dialed |-> FALSE, after |-> "none"]
    /\ UNCHANGED <<regVars, frameVars, extVars>>

\* line 252: socket.on("close"); node emits it after the socket's 'error'
OnClose(s) ==
    /\ sockets[s].pendClose
    /\ ~sockets[s].pendErr
    /\ outgoingConnections' = PoolAfterClose(s)
    /\ sockets' = [sockets EXCEPT ![s].pendClose = FALSE]
    /\ last' = [op |-> "close", peer |-> sockets[s].peer, sock |-> s,
                ret |-> 0, dialed |-> FALSE, after |-> "none"]
    /\ UNCHANGED <<regVars, frameVars, extVars>>

----------------------------------------------------------------------------
\* The peer registry: PeerManager (peerManager.ts)

Fqdns == {"", "k1", "k2"}                 \* service.fqdn; "" is a record without one

NullService == [null |-> TRUE]            \* a null / undefined argument

\* discovery records; `ver` stands for the rest of the record (name, host, port, txt)
Records == [null : {FALSE}, fqdn : Fqdns, ver : {1, 2}]

Services == Records \cup {NullService}

\* line 15 / line 29: service && service.fqdn
HasFqdn(service) == ~service.null /\ service.fqdn # ""

\* Map.has, Map.get, Map.set and Map.delete on the entries kept in insertion order
MapHas(m, k) == \E i \in 1..Len(m) : m[i].fqdn = k

MapGet(m, k) ==
    IF MapHas(m, k) THEN m[CHOOSE i \in 1..Len(m) : m[i].fqdn = k] ELSE NullService

MapSet(m, k, v) ==
    IF MapHas(m, k)
    THEN [i \in 1..Len(m) |-> IF m[i].fqdn = k THEN v ELSE m[i]]
    ELSE Append(m, v)

MapDelete(m, k) == SelectSeq(m, LAMBDA e : e.fqdn # k)

RegInit ==
    /\ peers = <<>>
    /\ emitted = <<>>
    /\ call = [op |-> "none", arg |-> NullService, had |-> FALSE, old |-> NullService]

\* Mutation of AddPeerEmits: every addPeer emits peerUp.
AddPeerEmitsAlways(service) == TRUE

\* lines 19, 22: existingPeer = this.peers.get(fqdn); if (!existingPeer) emit
AddPeerEmits(service) == ~MapHas(peers, service.fqdn)

\* Mutation of RemovePeerApplies: the has() test is dropped.
RemovePeerAppliesAlways(service) == HasFqdn(service)

\* line 29: service && service.fqdn && this.peers.has(service.fqdn)
RemovePeerApplies(service) == HasFqdn(service) /\ MapHas(peers, service.fqdn)

\* Mutation of RemovedPeer: peerDown carries the argument.
RemovedPeerIsArgument(service) == service

\* line 30: removedPeer = this.peers.get(service.fqdn)
RemovedPeer(service) == MapGet(peers, service.fqdn)

\* PeerManager.addPeer (lines 14-26)
AddPeerBody(service) ==
    /\ Len(emitted) < MaxEvents
    /\ call' = [op |-> "add", arg |-> service,
                had |-> HasFqdn(service) /\ MapHas(peers, service.fqdn),
                old |-> IF HasFqdn(service) THEN MapGet(peers, service.fqdn)
                        ELSE NullService]
    /\ IF ~HasFqdn(service)
       THEN UNCHANGED <<peers, emitted>>
       ELSE /\ peers' = MapSet(peers, service.fqdn, service)
            /\ emitted' = IF AddPeerEmits(service)
                          THEN Append(emitted, [ev |-> "peerUp", rec |-> service])
                          ELSE emitted

AddPeer(service) == AddPeerBody(service) /\ UNCHANGED <<poolVars, frameVars, extVars>>

\* PeerManager.removePeer (lines 28-35)
RemovePeerBody(service) ==
    /\ Len(emitted) < MaxEvents
    /\ call' = [op |-> "remove", arg |-> service,
                had |-> HasFqdn(service) /\ MapHas(peers, service.fqdn),
                old |-> IF HasFqdn(service) THEN MapGet(peers, service.fqdn)
                        ELSE NullService]
    /\ IF RemovePeerApplies(service)
       THEN /\ peers' = MapDelete(peers, service.fqdn)
            /\ emitted' = Append(emitted, [ev |-> "peerDown", rec |-> RemovedPeer(service)])
       ELSE UNCHANGED <<peers, emitted>>

RemovePeer(service) == RemovePeerBody(service) /\ UNCHANGED <<poolVars, frameVars, extVars>>

\* PeerManager.getPeerByFqdn (lines 37-39)
GetPeerByFqdn(fqdn) == MapGet(peers, fqdn)

----------------------------------------------------------------------------
\* Framing: sendMessage, the TCP byte stream, the 'data' handler of the listener
\*
\* Text is a sequence of characters, the stream a sequence of bytes.
\*   characters: "QUOTE" ("), "BSLASH" (\), "n", "a", "LF" (U+000A), "E9" (U+00E9),
\*               "FFFD" (U+FFFD, the replacement character)
\*   bytes:      "22", "5C", "6E", "61", "0A", and "C3" "A9" (U+00E9 in UTF-8),
\*               "EF" "BF" "BD" (U+FFFD in UTF-8)

P2P_MESSAGE_DELIMITER == "LF"             \* config.ts line 6: '\n'

\* the payloads handed to sendMessage: JSON strings (the leaves of any JSON value)
Payloads == {<<>>, <<"a">>, <<"LF">>, <<"E9">>, <<"a", "E9">>}

\* what a client that does not use sendMessage may write in one write
RawWrites == {<<"0A">>, <<"61", "0A">>, <<"22">>, <<"C3">>}

SocketId == "c1"                          \* generateSocketId of the accepted socket

RECURSIVE Flatten(_)
Flatten(ss) == IF ss = <<>> THEN <<>> ELSE Head(ss) \o Flatten(Tail(ss))

\* JSON.stringify of a string: quoted, with ", \ and control characters escaped
JsonEscape(c) ==
    CASE c = "LF"     -> <<"BSLASH", "n">>
      [] c = "QUOTE"  -> <<"BSLASH", "QUOTE">>
      [] c = "BSLASH" -> <<"BSLASH", "BSLASH">>
      [] OTHER        -> <<c>>

JsonStringify(payload) ==
    <<"QUOTE">> \o Flatten([i \in 1..Len(payload) |-> JsonEscape(payload[i])]) \o <<"QUOTE">>

\* the body of a JSON string literal, unescaped; ok = FALSE on a syntax error
RECURSIVE JsonUnescape(_)
JsonUnescape(body) ==
    IF body = <<>> THEN [ok |-> TRUE, val |-> <<>>]
    ELSE IF Head(body) = "BSLASH"
    THEN IF Len(body) >= 2 /\ body[2] \in {"n", "QUOTE", "BSLASH"}
         THEN LET r == JsonUnescape(Tail(Tail(body)))
                  c == IF body[2] = "n" THEN "LF" ELSE body[2]
              IN  [ok |-> r.ok, val |-> <<c>> \o r.val]
         ELSE [ok |-> FALSE, val |-> <<>>]
    ELSE IF Head(body) \in {"QUOTE", "LF"}
    THEN [ok |-> FALSE, val |-> <<>>]
    ELSE LET r == JsonUnescape(Tail(body))
         IN  [ok |-> r.ok, val |-> <<Head(body)>> \o r.val]

\* JSON.parse on the texts of this alphabet: a string literal or a SyntaxError
JsonParse(text) ==
    IF Len(text) >= 2 /\ text[1] = "QUOTE" /\ text[Len(text)] = "QUOTE"
    THEN JsonUnescape(SubSeq(text, 2, Len(text) - 1))
    ELSE [ok |-> FALSE, val |-> <<>>]

\* socket.write(string): the string's UTF-8 bytes
Utf8Char(c) ==
    CASE c = "QUOTE"  -> <<"22">>
      [] c = "BSLASH" -> <<"5C">>
      [] c = "n"      -> <<"6E">>
      [] c = "a"      -> <<"61">>
      [] c = "LF"     -> <<"0A">>
      [] c = "E9"     -> <<"C3", "A9">>
      [] OTHER        -> <<"EF", "BF", "BD">>

Utf8Encode(text) == Flatten([i \in 1..Len(text) |-> Utf8Char(text[i])])

AsciiChar(b) ==
    CASE b = "22" -> "QUOTE"
      [] b = "5C" -> "BSLASH"
      [] b = "6E" -> "n"
      [] b = "61" -> "a"
      [] b = "0A" -> "LF"
      [] OTHER    -> "FFFD"

\* data.toString("utf8") of one Buffer: a byte sequence that is not a complete
\* character at this place of the Buffer decodes to U+FFFD
RECURSIVE Utf8Decode(_)
Utf8Decode(bytes) ==
    IF bytes = <<>> THEN <<>>
    ELSE IF Head(bytes) = "C3"
    THEN IF Len(bytes) >= 2 /\ bytes[2] = "A9"
         THEN <<"E9">> \o Utf8Decode(Tail(Tail(bytes)))
         ELSE <<"FFFD">> \o Utf8Decode(Tail(bytes))
    ELSE <<AsciiChar(Head(bytes))>> \o Utf8Decode(Tail(bytes))

\* buffer.indexOf(P2P_MESSAGE_DELIMITER), 1-based; 0 when absent (-1 in the code)
IndexOfDelimiter(buf) ==
    IF \E i \in 1..Len(buf) : buf[i] = P2P_MESSAGE_DELIMITER
    THEN CHOOSE i \in 1..Len(buf) :
             /\ buf[i] = P2P_MESSAGE_DELIMITER
             /\ \A j \in 1..(i - 1) : buf[j] # P2P_MESSAGE_DELIMITER
    ELSE 0

\* Mutation of Dispatch: a fragment that does not parse is handed on as it is.
DispatchUnparsed(jsonString) ==
    IF jsonString # <<>>
    THEN IF JsonParse(jsonString).ok THEN <<JsonParse(jsonString).val>> ELSE <<jsonString>>
    ELSE <<>>

\* lines 140-150: the onDataCallback calls made for one fragment
Dispatch(jsonString) ==
    IF jsonString # <<>> /\ JsonParse(jsonString).ok
    THEN <<JsonParse(jsonString).val>>
    ELSE <<>>

\* Mutation of Deframe: `if` for `while`, one fragment is taken per read.
DeframeOnce(buf) ==
    IF IndexOfDelimiter(buf) = 0
    THEN [buffer |-> buf, msgs |-> <<>>]
    ELSE [buffer |-> SubSeq(buf, IndexOfDelimiter(buf) + 1, Len(buf)),
          msgs   |-> Dispatch(SubSeq(buf, 1, IndexOfDelimiter(buf) - 1))]

\* lines 135-151: the while loop over the delimiters of the buffer
RECURSIVE Deframe(_)
Deframe(buf) ==
    IF IndexOfDelimiter(buf) = 0
    THEN [buffer |-> buf, msgs |-> <<>>]
    ELSE LET delimiterIndex == IndexOfDelimiter(buf)
             jsonString == SubSeq(buf, 1, delimiterIndex - 1)
             rest == Deframe(SubSeq(buf, delimiterIndex + 1, Len(buf)))
         IN  [buffer |-> rest.buffer, msgs |-> Dispatch(jsonString) \o rest.msgs]

FrameInit ==
    /\ wire = <<>>
    /\ buffer = <<>>
    /\ dispatched = <<>>
    /\ sent = <<>>
    /\ stream = <<>>
    /\ rcvd = <<>>
    /\ lastRead = <<>>
    /\ serverClients = {}
    /\ sockState = "none"
    /\ nRaw = 0


\* lines 124-131: the connection listener of net.createServer
Accept ==
    /\ sockState = "none"
    /\ sockState' = "open"
    /\ serverClients' = serverClients \cup {SocketId}
    /\ buffer' = <<>>
    /\ UNCHANGED <<wire, dispatched, sent, stream, rcvd, lastRead, nRaw, poolVars,
                   regVars, extVars>>

\* sendMessage (lines 256-274) by the peer at the other end of the accepted socket
SendMessage(payload) ==
    /\ Len(sent) + nRaw < MaxWrites
    /\ IF sockState # "open"
       THEN UNCHANGED <<wire, sent>>
       ELSE /\ wire' = wire \o Utf8Encode(JsonStringify(payload) \o <<P2P_MESSAGE_DELIMITER>>)
            /\ sent' = Append(sent, payload)
    /\ UNCHANGED <<buffer, dispatched, stream, rcvd, lastRead, serverClients, sockState, nRaw,
                   poolVars, regVars, extVars>>

\* a client at the other end writes bytes of its own to the socket
RawWrite(bytes) ==
    /\ Len(sent) + nRaw < MaxWrites
    /\ sockState = "open"
    /\ wire' = wire \o bytes
    /\ nRaw' = nRaw + 1
    /\ UNCHANGED <<buffer, dispatched, sent, stream, rcvd, lastRead, serverClients, sockState,
                   poolVars, regVars, extVars>>

\* lines 132-152: socket.on("data") with a read of the next n bytes of the stream
OnData(n) ==
    /\ sockState = "open"
    /\ n \in 1..Len(wire)
    /\ LET data == SubSeq(wire, 1, n)
           r == Deframe(buffer \o Utf8Decode(data))
       IN  /\ buffer' = r.buffer
           /\ dispatched' = dispatched \o r.msgs
           /\ stream' = stream \o data
           /\ rcvd' = rcvd \o Utf8Decode(data)
           /\ lastRead' = data
           /\ wire' = SubSeq(wire, n + 1, Len(wire))
    /\ UNCHANGED <<sent, serverClients, sockState, nRaw, poolVars, regVars, extVars>>

\* lines 154-158: socket.on("end"), after the last byte of the stream was read
OnEnd ==
    /\ sockState = "open"
    /\ wire = <<>>
    /\ serverClients' = serverClients \ {SocketId}
    /\ sockState' = "ended"
    /\ UNCHANGED <<wire, buffer, dispatched, sent, stream, rcvd, lastRead, nRaw,
                   poolVars, regVars, extVars>>

\* lines 160-165: socket.on("error") only logs; the failed socket is destroyed
OnInboundError ==
    /\ sockState = "open"
    /\ sockState' = "destroyed"
    /\ UNCHANGED <<wire, buffer, dispatched, sent, stream, rcvd, lastRead, serverClients, nRaw,
                   poolVars, regVars, extVars>>

\* lines 167-172: socket.on("close")
OnInboundClose ==
    /\ sockState \in {"ended", "destroyed"}
    /\ sockState' = "closed"
    /\ serverClients' = IF SocketId \in serverClients
                        THEN serverClients \ {SocketId}
                        ELSE serverClients
    /\ UNCHANGED <<wire, buffer, dispatched, sent, stream, rcvd, lastRead, nRaw,
                   poolVars, regVars, extVars>>

\* closeAllConnections (lines 276-282): destroy every socket of both tables and
\* clear them (socket.destroy() on a destroyed socket does nothing)
CloseAllBody ==
    /\ sockState' = IF SocketId \in serverClients /\ sockState = "open"
                    THEN "destroyed" ELSE sockState
    /\ serverClients' = {}
    /\ sockets' = [s \in SockIds |->
                     IF /\ \E p \in PeerKeys : outgoingConnections[p] = s
                        /\ ~Destroyed(s)
                     THEN [sockets[s] EXCEPT !.status = "destroyed", !.pendClose = TRUE]
                     ELSE sockets[s]]
    /\ outgoingConnections' = [p \in PeerKeys |-> 0]
    /\ last' = [op |-> "closeAll", peer |-> "-", sock |-> 0, ret |-> 0,
                dialed |-> FALSE, after |-> "none"]

CloseAllConnections ==
    /\ CloseAllBody
    /\ UNCHANGED <<wire, buffer, dispatched, sent, stream, rcvd, lastRead, nRaw,
                   regVars, extVars>>

----------------------------------------------------------------------------
\* The duplicate-instance guard and the listener: createTcpServer (communication.ts)

Self == "self"                            \* process.pid of this process
OtherPids == {"o1", "o2"}                 \* the pids of the other processes of the host
SpecificPorts == {1}                      \* options.specificPort; 0 is null (the default)
EphemeralPorts == {2, 3}                  \* the ports the OS assigns to listen(0)
Methods == {"lockfile", "pidfile", "port", "none"}   \* duplicateDetectionMethod

TcpServerOptions ==
    [preventDuplicates : BOOLEAN, method : Methods, specificPort : {0} \cup SpecificPorts]

NoCall == [n |-> 0, preventDuplicates |-> TRUE, method |-> "pidfile",
           specificPort |-> 0, ret |-> "none"]

GuardInit ==
    /\ lockFile = "absent"
    /\ pidFile = "absent"
    /\ alive = {}
    /\ otherBound = {}
    /\ listening = {}
    /\ exitHandlers = <<>>
    /\ gcall = NoCall

\* parseInt(fs.readFileSync(file, "utf8").trim()) (lines 66, 83): the file holds
\* the decimal pid its creator wrote, or nothing yet, and parseInt("") is NaN
ParsePid(content) == IF content = "empty" THEN "NaN" ELSE content

\* Mutation of KillSucceeds: the liveness probe always throws.
KillNeverSucceeds(pid) == FALSE

\* process.kill(pid, 0) (lines 67, 85) returns when the process pid exists and
\* throws when it does not (and for NaN)
KillSucceeds(pid) == pid = Self \/ pid \in alive

\* acquireLock (lines 45-77), no other process writing meanwhile: the result and
\* the content of LOCK_FILE afterwards. A stale file is unlinked and the retry
\* (line 71) then creates it.
AcquireLock ==
    IF lockFile = "absent"
    THEN [ret |-> TRUE, file |-> Self]
    ELSE IF KillSucceeds(ParsePid(lockFile))
         THEN [ret |-> FALSE, file |-> lockFile]
         ELSE [ret |-> TRUE, file |-> Self]

\* createPidFile (lines 79-103), no other process writing meanwhile
CreatePidFile ==
    IF pidFile # "absent" /\ KillSucceeds(ParsePid(pidFile))
    THEN [ret |-> FALSE, file |-> pidFile]
    ELSE [ret |-> TRUE, file |-> Self]

PortsInUse == otherBound \cup listening

\* checkPortAvailability (lines 105-115): the test listener binds and is closed,
\* or its 'error' is EADDRINUSE
CheckPortAvailability(port) == port \notin PortsInUse

\* lines 206-218: canStart of createTcpServer
CanStart(options) ==
    IF ~options.preventDuplicates THEN TRUE
    ELSE IF options.method = "lockfile" THEN AcquireLock.ret
    ELSE IF options.method = "pidfile" THEN CreatePidFile.ret
    ELSE IF options.method = "port" /\ options.specificPort # 0
         THEN CheckPortAvailability(options.specificPort)
    ELSE TRUE

\* createTcpServer(onData, ..., options) (lines 192-225) with startTcpServer's
\* server.listen (lines 174-182): the guard of the chosen method, then either the
\* sentinel false, or a listener bound on the port (an OS-assigned one for 0), or
\* the rejection of the promise when listen fails on a port in use.
CreateTcpServerBody(options) ==
    /\ gcall.n < MaxStarts
    /\ lockFile' = IF options.preventDuplicates /\ options.method = "lockfile"
                   THEN AcquireLock.file ELSE lockFile
    /\ pidFile' = IF options.preventDuplicates /\ options.method = "pidfile"
                  THEN CreatePidFile.file ELSE pidFile
    /\ exitHandlers' =
          IF options.preventDuplicates /\ options.method = "lockfile" /\ AcquireLock.ret
          THEN Append(exitHandlers, "LOCK_FILE")
          ELSE IF options.preventDuplicates /\ options.method = "pidfile"
                  /\ CreatePidFile.ret
               THEN Append(exitHandlers, "PIDFILE")
               ELSE exitHandlers
    /\ IF ~CanStart(options)
       THEN /\ listening' = listening
            /\ gcall' = options @@ [n |-> gcall.n + 1, ret |-> "false"]
       ELSE IF options.specificPort # 0
            THEN IF options.specificPort \in PortsInUse
                 THEN /\ listening' = listening
                      /\ gcall' = options @@ [n |-> gcall.n + 1, ret |-> "rejected"]
                 ELSE /\ listening' = listening \cup {options.specificPort}
                      /\ gcall' = options @@ [n |-> gcall.n + 1, ret |-> "listening"]
            ELSE \E port \in EphemeralPorts \ PortsInUse :
                      /\ listening' = listening \cup {port}
                      /\ gcall' = options @@ [n |-> gcall.n + 1, ret |-> "listening"]
    /\ UNCHANGED <<alive, otherBound>>

CreateTcpServer(options) == CreateTcpServerBody(options) /\ UNCHANGED exceptGuard

\* ---- the other processes of the host ----

\* another instance starts
OtherStarts(pid) ==
    /\ pid \notin alive
    /\ alive' = alive \cup {pid}
    /\ UNCHANGED <<lockFile, pidFile, otherBound, listening, exitHandlers, gcall,
                   exceptGuard>>

\* a running instance creates a free marker file; its pid follows in a second write
OtherCreatesMarker(pid, file) ==
    /\ pid \in alive
    /\ IF file = "LOCK_FILE"
       THEN lockFile = "absent" /\ lockFile' \in {"empty", pid} /\ pidFile' = pidFile
       ELSE pidFile = "absent" /\ pidFile' \in {"empty", pid} /\ lockFile' = lockFile
    /\ UNCHANGED <<alive, otherBound, listening, exitHandlers, gcall,
                   exceptGuard>>

\* a running instance writes its pid into the marker file it created
OtherWritesPid(pid, file) ==
    /\ pid \in alive
    /\ IF file = "LOCK_FILE"
       THEN lockFile = "empty" /\ lockFile' = pid /\ pidFile' = pidFile
       ELSE pidFile = "empty" /\ pidFile' = pid /\ lockFile' = lockFile
    /\ UNCHANGED <<alive, otherBound, listening, exitHandlers, gcall,
                   exceptGuard>>

\* a running instance listens on the specific port, or stops listening
OtherBinds(port) ==
    /\ alive # {}
    /\ port \notin PortsInUse
    /\ otherBound' = otherBound \cup {port}
    /\ UNCHANGED <<lockFile, pidFile, alive, listening, exitHandlers, gcall,
                   exceptGuard>>

\* an instance exits: cleanly (its 'exit' handlers unlink its marker files) or
\* killed (its marker files stay behind); the last one frees the ports
OtherExits(pid, clean) ==
    /\ pid \in alive
    /\ alive' = alive \ {pid}
    /\ lockFile' = IF clean /\ lockFile = pid THEN "absent" ELSE lockFile
    /\ pidFile' = IF clean /\ pidFile = pid THEN "absent" ELSE pidFile
    /\ otherBound' = IF alive = {pid} THEN {} ELSE otherBound
    /\ UNCHANGED <<listening, exitHandlers, gcall, exceptGuard>>

----------------------------------------------------------------------------
\* P2PService (p2pService.ts) and discovery (discovery.ts)

InstanceName == "me"                      \* this.instanceName
Names == {"me", "peer"}                   \* service.name of the records browsed
DiscPorts == {2, 3}                       \* service.port of the records browsed

\* the fully qualified name of a service is its name followed by the service
\* type and domain; it is the key of the registry and of the outbound pool
FqdnOf(name) == IF name = "me" THEN "p1" ELSE "p2"

\* the records the browser reports: this instance's name on either port, another
\* instance's name on one port
DiscRecords ==
    {r \in [null : {FALSE}, fqdn : PeerKeys, name : Names, port : DiscPorts] :
        r.fqdn = FqdnOf(r.name) /\ (r.name = InstanceName \/ r.port = 2)}

NoAdvert == [inst |-> 0, name |-> "", port |-> 0]

\* createTcpServer(handleIncomingMessage): the option defaults of lines 200-204
DefaultOptions == [preventDuplicates |-> TRUE, method |-> "pidfile", specificPort |-> 0]

SvcInit ==
    /\ bonjourInstance = 0
    /\ nBonjour = 0
    /\ publishedService = NoAdvert
    /\ adverts = {}
    /\ browsers = {}
    /\ subs = 0
    /\ starts = <<>>
    /\ stopCbs = <<>>
    /\ svc = [n |-> 0, op |-> "none", sentinel |-> FALSE]    \* n: start() calls resumed

RemoveAt(seq, i) == SubSeq(seq, 1, i - 1) \o SubSeq(seq, i + 1, Len(seq))

\* P2PService.start up to its await (line 41): createTcpServer with the defaults.
\* The call resolves with false or with {server, port}; 0 stands for the port
\* start() reads out of false (line 48: undefined).
StartCall ==
    /\ CreateTcpServerBody(DefaultOptions)
    /\ starts' = IF gcall'.ret = "listening"
                 THEN Append(starts, CHOOSE port \in listening' : port \notin listening)
                 ELSE Append(starts, 0)
    /\ svc' = [n |-> svc.n, op |-> "startCall", sentinel |-> gcall'.ret = "false"]
    /\ UNCHANGED <<bonjourInstance, nBonjour, publishedService, adverts, browsers, subs,
                   stopCbs, poolVars, regVars, frameVars, restVars>>

\* Mutation of DiscoveryActive: startDiscovery does not test bonjourInstance.
DiscoveryActiveNever == FALSE

\* discovery.ts line 14: if (bonjourInstance)
DiscoveryActive == bonjourInstance # 0

\* bonjourInstance.publish (line 21) is library code: given a port it returns the
\* published service; what it does without a port (undefined) is not fixed by
\* this repository, it may throw or publish
PublishThrows(port) == IF port = 0 THEN {TRUE, FALSE} ELSE {FALSE}

\* P2PService.start from its await on (lines 42-55), for the i-th waiting call:
\* the error log of line 43 does not return, so startDiscovery(instanceName,
\* p2pPort) (discovery.ts lines 10-53) and setupPeerListeners (lines 58-78) run
\* whatever createTcpServer returned. A throw of publish ends start() after the
\* Bonjour instance was stored (line 19).
StartResume(i, throws) ==
    /\ i \in 1..Len(starts)
    /\ throws \in PublishThrows(starts[i])
    /\ starts' = RemoveAt(starts, i)
    /\ svc' = [n |-> svc.n + 1, op |-> "start", sentinel |-> starts[i] = 0]
    /\ IF DiscoveryActive
       THEN /\ UNCHANGED <<bonjourInstance, nBonjour, publishedService, adverts, browsers>>
            /\ subs' = subs + 1
       ELSE /\ bonjourInstance' = nBonjour + 1
            /\ nBonjour' = nBonjour + 1
            /\ IF throws
               THEN UNCHANGED <<publishedService, adverts, browsers, subs>>
               ELSE LET ad == [inst |-> nBonjour + 1, name |-> InstanceName,
                               port |-> starts[i]]
                    IN  /\ publishedService' = ad
                        /\ adverts' = adverts \cup {ad}
                        /\ browsers' = browsers \cup {ad}
                        /\ subs' = subs + 1
    /\ UNCHANGED <<stopCbs, guardVars, poolVars, regVars, frameVars, restVars>>

\* Mutation of IsSelf: the browser filters nothing.
IsSelfNever(service, b) == FALSE

\* discovery.ts line 41: service.name === instanceName && service.port ===
\* portToAnnounce, with the arguments of the startDiscovery call of browser b
IsSelf(service, b) == service.name = b.name /\ service.port = b.port

\* the peerUp listeners of setupPeerListeners (lines 59-71) up to their await:
\* each of the k listeners calls connectToPeer(peer)
ListenersDial(p, k) ==
    IF k = 0
    THEN UNCHANGED poolVars
    ELSE IF Reusable(p) # 0
         THEN /\ last' = [op |-> "connect", peer |-> p, sock |-> Reusable(p),
                          ret |-> Reusable(p), dialed |-> FALSE, after |-> "none"]
              /\ UNCHANGED <<sockets, outgoingConnections>>
         ELSE /\ Len(sockets) + k <= MaxSockets
              /\ sockets' = sockets \o [j \in 1..k |-> NewSocket(p)]
              /\ outgoingConnections' = [outgoingConnections EXCEPT ![p] = 0]
              /\ last' = [op |-> "connect", peer |-> p, sock |-> Len(sockets) + k,
                          ret |-> 0, dialed |-> TRUE, after |-> "none"]

\* browser.on("up") (discovery.ts lines 40-45) of browser b: the instance's own
\* record is dropped, any other goes to peerManager.addPeer, whose peerUp runs
\* the subscribed listeners
BrowserUp(b, service) ==
    /\ b \in browsers
    /\ Len(emitted) < MaxBrowse
    /\ IF IsSelf(service, b)
       THEN UNCHANGED <<regVars, poolVars>>
       ELSE /\ AddPeerBody(service)
            /\ IF Len(emitted') > Len(emitted)
               THEN ListenersDial(service.fqdn, subs)
               ELSE UNCHANGED poolVars
    /\ UNCHANGED <<guardVars, svcVars, frameVars, restVars>>

\* browser.on("down") (discovery.ts lines 47-49); the peerDown listener only logs
BrowserDown(b, service) ==
    /\ b \in browsers
    /\ Len(emitted) < MaxBrowse
    /\ RemovePeerBody(service)
    /\ UNCHANGED <<guardVars, svcVars, poolVars, frameVars, restVars>>

\* Mutation of Destroy: destroy() leaves the instance's services and browsers up.
DestroyNothing(set, inst) == set

\* bonjourInstance.destroy(): the instance stops answering for its services and
\* its browsers stop
Destroy(set, inst) == {x \in set : x.inst # inst}

\* P2PService.stop (lines 108-112) up to the resolution of stopDiscovery
\* (discovery.ts lines 55-83): without an instance stopDiscovery resolves at once,
\* with a published service it waits for publishedService.stop's callback, with
\* an instance only it destroys it; once resolved, closeAllConnections runs.
Stop ==
    /\ Len(stopCbs) < MaxStops
    /\ svc' = [n |-> svc.n, op |-> "stop", sentinel |-> FALSE]
    /\ IF bonjourInstance # 0 /\ publishedService # NoAdvert
       THEN /\ stopCbs' = Append(stopCbs, publishedService)
            /\ UNCHANGED <<bonjourInstance, adverts, browsers, poolVars,
                           serverClients, sockState>>
       ELSE /\ adverts' = Destroy(adverts, bonjourInstance)
            /\ browsers' = Destroy(browsers, bonjourInstance)
            /\ bonjourInstance' = 0
            /\ CloseAllBody
            /\ UNCHANGED stopCbs
    /\ UNCHANGED <<nBonjour, publishedService, subs, starts, guardVars, regVars,
                   wire, buffer, dispatched, sent, stream, rcvd, lastRead, nRaw, restVars>>

\* Mutation of StopCallback: stop() also empties the registry.
StopCallbackClearsPeers(i) ==
    /\ i \in 1..Len(stopCbs)
    /\ stopCbs' = RemoveAt(stopCbs, i)
    /\ publishedService' = NoAdvert
    /\ adverts' = Destroy(adverts \ {stopCbs[i]}, bonjourInstance)
    /\ browsers' = Destroy(browsers, bonjourInstance)
    /\ bonjourInstance' = 0
    /\ CloseAllBody
    /\ svc' = [n |-> svc.n, op |-> "stopped", sentinel |-> FALSE]
    /\ peers' = <<>>
    /\ UNCHANGED <<nBonjour, subs, starts, guardVars, emitted, call,
                   wire, buffer, dispatched, sent, stream, rcvd, lastRead, nRaw, restVars>>

\* the callback of publishedService.stop (discovery.ts lines 62-69), the service
\* being withdrawn by the library, and the rest of P2PService.stop (line 111)
StopCallback(i) ==
    /\ i \in 1..Len(stopCbs)
    /\ stopCbs' = RemoveAt(stopCbs, i)
    /\ publishedService' = NoAdvert
    /\ adverts' = Destroy(adverts \ {stopCbs[i]}, bonjourInstance)
    /\ browsers' = Destroy(browsers, bonjourInstance)
    /\ bonjourInstance' = 0
    /\ CloseAllBody
    /\ svc' = [n |-> svc.n, op |-> "stopped", sentinel |-> FALSE]
    /\ UNCHANGED <<nBonjour, subs, starts, guardVars, regVars,
                   wire, buffer, dispatched, sent, stream, rcvd, lastRead, nRaw, restVars>>

----------------------------------------------------------------------------
\* P2PService.broadcast (p2pService.ts lines 81-100) over the outbound pool

\* pc: "idle" (no call), "loop" (at the head of the for loop), "await" (suspended on
\* the connectToPeer promise of socket sock), "done" (returned), "rejected";
\* targets: the peers read at line 83; i: the index of the current peer;
\* log: the outcome for each peer handled so far
NoBroadcast == [pc |-> "idle", targets |-> <<>>, i |-> 0, sock |-> 0, log |-> <<>>]

BcastInit == bcast = NoBroadcast

\* the peers of the registry during a broadcast: one record per key
BcastPeers == {r \in DiscRecords : r.port = 2}

\* peerManager.getAllPeers() (peerManager.ts lines 50-52), as the keys dialed
GetAllPeers == [k \in 1..Len(peers) |-> peers[k].fqdn]

\* the for loop goes on to the next peer, or broadcast returns after the last
NextPeer(b, outcome) ==
    LET lg == Append(b.log, [peer |-> b.targets[b.i], out |-> outcome])
    IN  IF b.i < Len(b.targets)
        THEN [b EXCEPT !.pc = "loop", !.i = b.i + 1, !.sock = 0, !.log = lg]
        ELSE [b EXCEPT !.pc = "done", !.sock = 0, !.log = lg]

\* Mutation of AfterReject: the rejection of connectToPeer leaves broadcast.
AfterRejectThrows(b) == [b EXCEPT !.pc = "rejected"]

\* lines 92-97: the catch of the loop body logs the error; the loop goes on
AfterReject(b) == NextPeer(b, "rejected")

\* lines 91 with sendMessage lines 257-262: the send on the socket the promise
\* resolved with; sendMessage returns false on a destroyed socket
AfterResolve(b) ==
    NextPeer(b, IF sockets[b.sock].status = "open" THEN "sent" ELSE "sendFalse")

\* broadcast(message) is called (lines 81-88): the peers are read once; with no
\* peers it returns at once
BroadcastCall ==
    /\ bcast.pc \in {"idle", "done"}
    /\ bcast' = IF Len(peers) = 0
                THEN [NoBroadcast EXCEPT !.pc = "done"]
                ELSE [NoBroadcast EXCEPT !.pc = "loop", !.targets = GetAllPeers, !.i = 1]
    /\ UNCHANGED <<poolVars, regVars, frameVars, guardVars, svcVars, sendVars, connVars, lateVars>>

\* line 90: connectToPeer(peer) for the current peer, then the await
BroadcastConnect ==
    /\ bcast.pc = "loop"
    /\ ConnectToPeerBody(bcast.targets[bcast.i])
    /\ bcast' = [bcast EXCEPT !.pc = "await", !.sock = last'.sock]
    /\ UNCHANGED <<regVars, frameVars, guardVars, svcVars, sendVars, connVars, lateVars>>

\* the await of line 90 resumes once the promise is settled: lines 91-97
BroadcastResume ==
    /\ bcast.pc = "await"
    /\ sockets[bcast.sock].promise # "pending"
    /\ bcast' = IF sockets[bcast.sock].promise = "resolved"
                THEN AfterResolve(bcast)
                ELSE AfterReject(bcast)
    /\ UNCHANGED <<poolVars, regVars, frameVars, guardVars, svcVars, sendVars, connVars, lateVars>>

BroadcastStep == BroadcastConnect \/ BroadcastResume

----------------------------------------------------------------------------
\* sendMessage(socket, messageObject) (communication.ts lines 256-274)

\* a message object that refers to itself: JSON.stringify throws a TypeError
Circular == <<"CIRCULAR">>

SendPayloads == Payloads \cup {Circular}

\* the socket argument: the socket in its present state, or null / undefined
SocketArgs == {"socket", "null"}

SendInit ==
    /\ sk = "open"
    /\ written = <<>>
    /\ snd = [n |-> 0, arg |-> "null", payload |-> <<>>, ret |-> FALSE]

\* Mutation of Unsendable: socket.writable is not tested.
UnsendableIgnoresWritable(socket) == socket \in {"null", "destroyed"}

\* line 260: !socket || socket.destroyed || !socket.writable
Unsendable(socket) == socket = "null" \/ socket = "destroyed" \/ socket # "open"

\* lines 267-273: the chunk handed to socket.write, <<>> if JSON.stringify threw
\* and the catch returned false
Chunk(payload) ==
    IF payload = Circular
    THEN <<>>
    ELSE Utf8Encode(JsonStringify(payload) \o <<P2P_MESSAGE_DELIMITER>>)

\* sendMessage(socket, messageObject) on the argument arg
SendMessageTo(arg, payload) ==
    /\ snd.n < MaxSends
    /\ LET socket == IF arg = "null" THEN "null" ELSE sk
           ret == ~Unsendable(socket) /\ Chunk(payload) # <<>>
       IN  /\ written' = IF ret THEN Append(written, Chunk(payload)) ELSE written
           /\ snd' = [n |-> snd.n + 1, arg |-> arg, payload |-> payload, ret |-> ret]
    /\ UNCHANGED <<sk, poolVars, regVars, frameVars, guardVars, svcVars, bcastVars, connVars, lateVars>>

\* the writable side of the socket ends (socket.end(), or the peer's FIN with
\* allowHalfOpen off)
SocketEnds ==
    /\ sk = "open"
    /\ sk' = "ended"
    /\ UNCHANGED <<written, snd, poolVars, regVars, frameVars, guardVars, svcVars, bcastVars,
                   connVars, lateVars>>

\* the socket is destroyed (an error, the close of an ended socket, destroy())
SocketDestroyed ==
    /\ sk \in {"open", "ended"}
    /\ sk' = "destroyed"
    /\ UNCHANGED <<written, snd, poolVars, regVars, frameVars, guardVars, svcVars, bcastVars,
                   connVars, lateVars>>

----------------------------------------------------------------------------
\* The sockets the module owns and the listeners it attaches to them:
\* the connection listener of startTcpServer (lines 124-172) and connectToPeer
\* (lines 238-252)

SocketIds == {"a:1", "a:2"}               \* generateSocketId: remoteAddress:remotePort

\* lines 132, 154, 160, 167: the events the connection listener subscribes to
InboundListeners == {"data", "end", "error", "close"}

\* lines 239-252: the events connectToPeer subscribes to
OutboundListeners == {"connect", "error", "close"}

Listeners(dir) == IF dir = "in" THEN InboundListeners ELSE OutboundListeners

\* dir: "in" (accepted) or "out" (dialed); id: the socketId or the peer's fqdn;
\* status: "open", "ended", "destroyed", "closed"; inbox: the bytes received and
\* not yet read; buf: the listener's `buffer`; nDisc: the onClientDisconnected
\* calls made by this socket's listeners
NewConn(dir, id) ==
    [dir |-> dir, id |-> id, status |-> "open", inbox |-> <<>>, buf |-> <<>>,
     nDisc |-> 0]

ConnIds == 1..Len(conns)

ConnInit ==
    /\ conns = <<>>
    /\ clientTable = [id \in SocketIds |-> 0]
    /\ delivered = <<>>

otherThanConn == <<poolVars, regVars, frameVars, guardVars, svcVars, bcastVars, sendVars,
                   lateVars>>

\* lines 124-131: a client connects and is entered under its socketId, the remote
\* address and port. serverClients is shared by every listener of the process, so
\* a remote endpoint can come again; here it does so only after the connection
\* that had it is no longer established.
AcceptConn(id) ==
    /\ Len(conns) < MaxConns
    /\ \A c \in ConnIds : (conns[c].dir = "in" /\ conns[c].id = id) => conns[c].status # "open"
    /\ conns' = Append(conns, NewConn("in", id))
    /\ clientTable' = [clientTable EXCEPT ![id] = Len(conns) + 1]
    /\ UNCHANGED <<delivered, otherThanConn>>

\* lines 238-246: connectToPeer dialed peer p and the socket is connected
DialConn(p) ==
    /\ Len(conns) < MaxConns
    /\ conns' = Append(conns, NewConn("out", p))
    /\ UNCHANGED <<clientTable, delivered, otherThanConn>>

\* the remote end sends one frame on the connection
FrameArrives(c, payload) ==
    /\ conns[c].status = "open"
    /\ Len(delivered) + Cardinality({d \in ConnIds : conns[d].inbox # <<>>}) < MaxFrames
    /\ conns[c].inbox = <<>>
    /\ conns' = [conns EXCEPT ![c].inbox = Chunk(payload)]
    /\ UNCHANGED <<clientTable, delivered, otherThanConn>>

\* the 'data' event of socket c: it reaches the listener of lines 132-152 where
\* one is subscribed
SocketData(c) ==
    /\ conns[c].status = "open"
    /\ conns[c].inbox # <<>>
    /\ "data" \in Listeners(conns[c].dir)
    /\ LET r == Deframe(conns[c].buf \o Utf8Decode(conns[c].inbox))
       IN  /\ conns' = [conns EXCEPT ![c].inbox = <<>>, ![c].buf = r.buffer]
           /\ delivered' = delivered \o
                 [k \in 1..Len(r.msgs) |-> [conn |-> c, message |-> r.msgs[k]]]
    /\ UNCHANGED <<clientTable, otherThanConn>>

\* socket.on("end") (lines 154-158) of an accepted socket: the client closed
SocketEnd(c) ==
    /\ conns[c].dir = "in"
    /\ conns[c].status = "open"
    /\ conns[c].inbox = <<>>
    /\ clientTable' = [clientTable EXCEPT ![conns[c].id] = 0]
    /\ conns' = [conns EXCEPT ![c].status = "ended", ![c].nDisc = @ + 1]
    /\ UNCHANGED <<delivered, otherThanConn>>

\* socket.on("error") (lines 160-165) of an accepted socket only logs; the
\* socket is destroyed
SocketError(c) ==
    /\ conns[c].dir = "in"
    /\ conns[c].status \in {"open", "ended"}
    /\ conns' = [conns EXCEPT ![c].status = "destroyed"]
    /\ UNCHANGED <<clientTable, delivered, otherThanConn>>

\* socket.on("close") (lines 167-172) of an accepted socket, after its 'end' or
\* 'error'
SocketClose(c) ==
    /\ conns[c].dir = "in"
    /\ conns[c].status \in {"ended", "destroyed"}
    /\ IF clientTable[conns[c].id] # 0
       THEN /\ clientTable' = [clientTable EXCEPT ![conns[c].id] = 0]
            /\ conns' = [conns EXCEPT ![c].status = "closed", ![c].nDisc = @ + 1]
       ELSE /\ clientTable' = clientTable
            /\ conns' = [conns EXCEPT ![c].status = "closed"]
    /\ UNCHANGED <<delivered, otherThanConn>>

----------------------------------------------------------------------------
\* The timers: TimerManager (core/timer-manager.ts), TimerInstance
\* (core/timer-instance.ts) and the timer routes (http.ts)
\*
\* A timer id is a JavaScript number or string. A string is the sequence of its
\* characters: a digit is its value, Minus and Letter stand for "-" and for a
\* character that is neither. A number is its integer value.

Digits == 0..9
Letter == 10
Minus  == 11

NumKey(n) == [ty |-> "number", n |-> n, s |-> <<>>]
StrKey(s) == [ty |-> "string", n |-> 0, s |-> s]
NoKey     == [ty |-> "undefined", n |-> 0, s |-> <<>>]

\* timer-manager.ts lines 9-11: /^-?\d+$/.test(str)
IsIntegerString(str) ==
    LET d == IF str # <<>> /\ str[1] = Minus THEN Tail(str) ELSE str
    IN  d # <<>> /\ \A i \in 1..Len(d) : d[i] \in Digits

RECURSIVE DecimalValue(_)
DecimalValue(d) ==
    IF d = <<>> THEN 0 ELSE 10 * DecimalValue(SubSeq(d, 1, Len(d) - 1)) + d[Len(d)]

\* Number(str) for a string of digits, signs and letters: the value of a decimal
\* numeral (leading zeros dropped, "-0" is the key 0 of a Map), 0 for the empty
\* string, NaN for anything else
Number(str) ==
    IF str = <<>> THEN [nan |-> FALSE, n |-> 0]
    ELSE IF ~IsIntegerString(str) THEN [nan |-> TRUE, n |-> 0]
    ELSE IF str[1] = Minus THEN [nan |-> FALSE, n |-> 0 - DecimalValue(Tail(str))]
    ELSE [nan |-> FALSE, n |-> DecimalValue(str)]

RECURSIVE DecimalDigits(_)
DecimalDigits(n) == IF n < 10 THEN <<n>> ELSE DecimalDigits(n \div 10) \o <<n % 10>>

\* number.toString()
NumberToString(n) == IF n < 0 THEN <<Minus>> \o DecimalDigits(0 - n) ELSE DecimalDigits(n)

\* TIMER_CONSTANTS.DEFAULT_TIMER_ID and the manager's defaultTimerId
DefaultTimerId == 0
defaultTimerId == NumKey(DefaultTimerId)

\* the ids the callers pass: numbers, and the strings a route parameter can be
IdNumbers == {0, 1}
IdStrings == {<<0>>, <<1>>, <<0, 1>>, <<Letter>>}
RouteIds  == {StrKey(s) : s \in IdStrings}
TimerIds  == {NumKey(n) : n \in IdNumbers} \cup RouteIds
CountdownIds == {StrKey(<<0>>), StrKey(<<Letter>>)}

Times == 0..MaxTime
SubscriberIds == {"ws1"}

\* new TimerInstance(timerId, initialTime) (timer-instance.ts lines 22-34); live
\* counts the setInterval timers of the instance that were not cleared. The
\* field initialTime, read only by reset() and the status getters, is left out.
NewTimer(initialTime) ==
    [state |-> "stopped", currentTime |-> initialTime, intervalId |-> FALSE,
     live |-> 0, subscribers |-> {}]

\* broadcast (lines 37-59): every subscriber whose send throws is deleted; ok are
\* the subscribers whose send works
Broadcast(t, ok) == [t EXCEPT !.subscribers = @ \cap ok]

\* clearInterval(this.intervalId) when intervalId is set
ClearInterval(t) ==
    IF t.intervalId THEN [t EXCEPT !.live = @ - 1] ELSE t

\* stopCountdown (lines 160-176)
stopCountdown(t, ok) ==
    LET t1 == [ClearInterval(t) EXCEPT !.intervalId = FALSE]
        t2 == IF t1.state = "running"
              THEN [t1 EXCEPT !.state = IF t1.currentTime <= 0 THEN "completed" ELSE "stopped"]
              ELSE t1
    IN  IF t2.state # t.state THEN Broadcast(t2, ok) ELSE t2

\* startCountdown (lines 119-158) up to setInterval
startCountdown(t, ok) ==
    IF t.state = "running" THEN t
    ELSE IF t.currentTime <= 0
    THEN Broadcast([t EXCEPT !.state = "completed"], ok)
    ELSE Broadcast([ClearInterval(t) EXCEPT !.state = "running", !.intervalId = TRUE,
                                            !.live = @ + 1], ok)

\* the interval callback (lines 140-157)
tick(t, ok) ==
    IF t.currentTime > 0
    THEN LET t1 == Broadcast([t EXCEPT !.currentTime = @ - 1], ok)
         IN  IF t1.currentTime = 0
             THEN stopCountdown(Broadcast([t1 EXCEPT !.state = "completed"], ok), ok)
             ELSE t1
    ELSE t

\* Mutation of setTime: the running countdown is kept.
setTimeKeepsState(t, newTime, ok) == Broadcast([t EXCEPT !.currentTime = newTime], ok)

\* setTime (lines 178-188) for newTime >= 0
setTime(t, newTime, ok) ==
    Broadcast([stopCountdown(t, ok) EXCEPT
                  !.currentTime = newTime,
                  !.state = IF newTime = 0 THEN "completed" ELSE "stopped"], ok)

\* add (lines 192-203)
add(t, seconds, ok) ==
    LET t1 == [t EXCEPT !.currentTime = @ + seconds]
    IN  Broadcast(IF t1.state = "completed" /\ t1.currentTime > 0
                  THEN [t1 EXCEPT !.state = "stopped"] ELSE t1, ok)

\* subtract (lines 205-222)
subtract(t, seconds, ok) ==
    LET left == IF t.currentTime - seconds < 0 THEN 0 ELSE t.currentTime - seconds
        t1   == [t EXCEPT !.currentTime = left]
    IN  Broadcast(IF left = 0
                  THEN IF t.state = "running"
                       THEN stopCountdown([t1 EXCEPT !.state = "completed"], ok)
                       ELSE [t1 EXCEPT !.state = "completed"]
                  ELSE t1, ok)

\* multiply (lines 233-246) by a whole factor
multiply(t, factor, ok) ==
    LET t1 == [t EXCEPT !.currentTime = @ * factor]
    IN  Broadcast(IF t1.state = "completed" /\ t1.currentTime > 0
                  THEN [t1 EXCEPT !.state = "stopped"] ELSE t1, ok)

\* divide (lines 248-262): Math.round of the quotient of two whole numbers
divide(t, divisor, ok) ==
    LET t1 == [t EXCEPT !.currentTime = (2 * @ + divisor) \div (2 * divisor)]
    IN  Broadcast(IF t1.currentTime = 0 /\ t1.state # "completed"
                  THEN stopCountdown([t1 EXCEPT !.state = "completed"], ok)
                  ELSE t1, ok)

\* Map.set and Map.delete on the timers
TimersSet(m, k, t) == [x \in DOMAIN m \cup {k} |-> IF x = k THEN t ELSE m[x]]
TimersDelete(m, k) == [x \in DOMAIN m \ {k} |-> m[x]]

\* Mutation of Normalize: the id is used as it was passed.
NormalizeNothing(timerId) == timerId

\* lines 144-149 and 182-187: a string that is an integer becomes the number
Normalize(timerId) ==
    IF timerId.ty = "string" /\ IsIntegerString(timerId.s)
    THEN NumKey(Number(timerId.s).n)
    ELSE timerId

\* lines 152-162 and 189-199: the key under which the timer of timerId is found
\* in m, trying the other type when the normalized id has no entry
Lookup(m, timerId) ==
    LET norm == Normalize(timerId)
    IN  IF norm \in DOMAIN m THEN norm
        ELSE IF norm.ty = "number"
        THEN IF StrKey(NumberToString(norm.n)) \in DOMAIN m
             THEN StrKey(NumberToString(norm.n)) ELSE NoKey
        ELSE IF IsIntegerString(norm.s) /\ NumKey(Number(norm.s).n) \in DOMAIN m
             THEN NumKey(Number(norm.s).n) ELSE NoKey

\* getTimer(timerId) (lines 178-202): the key of the instance returned, NoKey
\* for undefined; getTimer() is getTimer(defaultTimerId)
getTimer(timerId) == Lookup(timers, timerId)

NoTimerCall == [op |-> "none", arg |-> NoKey, ret |-> "none", time |-> 0]

\* new TimerManager(MaxTime) (lines 19-37): syncInitialize has put the default
\* timer, initializeManager waits for the storage file
TimerInit ==
    /\ timers = TimersSet(<<>>, defaultTimerId, NewTimer(MaxTime))
    /\ loaded = FALSE
    /\ orphans = 0
    /\ tcall = NoTimerCall

\* what an earlier run's saveToFile (lines 92-103) left in the storage file and
\* has not expired: never the default timer, ids as getOrCreateTimer made them
StoredTimers ==
    {[timerId |-> NumKey(1), currentTime |-> MaxTime, state |-> "running"],
     [timerId |-> StrKey(<<Letter>>), currentTime |-> 0, state |-> "completed"]}

\* the instance loadFromFile makes of a stored timer (lines 73-84)
Loaded(data) ==
    LET t == [NewTimer(data.currentTime) EXCEPT !.state = data.state]
    IN  IF data.state = "running" THEN stopCountdown(t, {}) ELSE t

\* initializeManager (lines 39-60) once the storage file was read: every stored
\* timer replaces the entry of its id, the instance replaced keeps its interval.
\* No timer made in this run has expired, cleanupExpiredTimers removes nothing.
LoadFromFile(storage) ==
    /\ ~loaded
    /\ loaded' = TRUE
    /\ timers' = [k \in DOMAIN timers \cup {d.timerId : d \in storage} |->
                    IF \E d \in storage : d.timerId = k
                    THEN Loaded(CHOOSE d \in storage : d.timerId = k)
                    ELSE timers[k]]
    /\ orphans' = orphans + Cardinality({d \in storage : /\ d.timerId \in DOMAIN timers
                                                         /\ timers[d.timerId].live > 0})
    /\ tcall' = [op |-> "load", arg |-> NoKey, ret |-> "none", time |-> 0]
    /\ UNCHANGED exceptTimer

\* getOrCreateTimer(timerId, initialTime) (lines 139-176) on the Map m; the save
\* it schedules writes the storage file only
getOrCreateTimer(m, timerId, initialTime) ==
    IF Lookup(m, timerId) # NoKey
    THEN m
    ELSE TimersSet(m, Normalize(timerId), NewTimer(initialTime))

GetOrCreateTimer(timerId, initialTime) ==
    /\ timers' = getOrCreateTimer(timers, timerId, initialTime)
    /\ tcall' = [op |-> "getOrCreate", arg |-> timerId,
                 ret |-> IF getTimer(timerId) # NoKey THEN "found" ELSE "created", time |-> 0]
    /\ UNCHANGED <<loaded, orphans, exceptTimer>>

\* line 206: timerId !== this.defaultTimerId is false for the number only
IsDefault(timerId) == timerId = defaultTimerId

\* lines 210-218: the key the deletes remove, NoKey when none of them finds one
DeletedKey(m, timerId) ==
    IF timerId \in DOMAIN m THEN timerId
    ELSE IF timerId.ty = "number"
    THEN IF StrKey(NumberToString(timerId.n)) \in DOMAIN m
         THEN StrKey(NumberToString(timerId.n)) ELSE NoKey
    ELSE IF ~Number(timerId.s).nan /\ NumKey(Number(timerId.s).n) \in DOMAIN m
         THEN NumKey(Number(timerId.s).n) ELSE NoKey

\* removeTimer(timerId) (lines 204-226): stopCountdown runs on a timer without
\* subscribers, its broadcasts reach nobody; an interval the removed instance
\* keeps goes on ticking without an entry
RemoveTimer(timerId) ==
    LET key == getTimer(timerId)
    IN  /\ IF key # NoKey /\ timers[key].subscribers = {} /\ ~IsDefault(timerId)
           THEN LET stopped == stopCountdown(timers[key], {})
                    m       == [timers EXCEPT ![key] = stopped]
                    del     == DeletedKey(m, timerId)
                IN  /\ timers' = IF del = NoKey THEN m ELSE TimersDelete(m, del)
                    /\ orphans' = IF del = NoKey THEN orphans ELSE orphans + m[del].live
                    /\ tcall' = [op |-> "remove", arg |-> timerId,
                                 ret |-> IF del = NoKey THEN "false" ELSE "true", time |-> 0]
           ELSE /\ UNCHANGED <<timers, orphans>>
                /\ tcall' = [op |-> "remove", arg |-> timerId, ret |-> "false", time |-> 0]
        /\ UNCHANGED <<loaded, exceptTimer>>

\* subscribe (timer-instance.ts lines 85-106) of subscriber w to the timer at
\* key k; the subscriber is dropped when sending it the initial state throws
Subscribe(k, w, sendOk) ==
    /\ k \in DOMAIN timers
    /\ timers' = [timers EXCEPT ![k].subscribers = IF sendOk THEN @ \cup {w} ELSE @ \ {w}]
    /\ tcall' = [op |-> "subscribe", arg |-> NoKey, ret |-> "none", time |-> 0]
    /\ UNCHANGED <<loaded, orphans, exceptTimer>>

\* unsubscribe (lines 108-115)
Unsubscribe(k, w) ==
    /\ k \in DOMAIN timers
    /\ timers' = [timers EXCEPT ![k].subscribers = @ \ {w}]
    /\ tcall' = [op |-> "unsubscribe", arg |-> NoKey, ret |-> "none", time |-> 0]
    /\ UNCHANGED <<loaded, orphans, exceptTimer>>

\* PUT /timers/:timerId (http.ts lines 36-81) with a body {time}: a negative
\* time throws before the manager is called
PutTimer(timerId, time, ok) ==
    /\ IF time < 0
       THEN /\ UNCHANGED timers
            /\ tcall' = [op |-> "put", arg |-> timerId, ret |-> "error", time |-> time]
       ELSE LET m   == getOrCreateTimer(timers, timerId, time)
                key == Lookup(m, timerId)
                t1  == setTime(m[key], time, ok)
                t2  == IF t1.currentTime > 0 /\ t1.state = "stopped"
                       THEN startCountdown(t1, ok) ELSE t1
                t3  == IF t2.currentTime = 0 THEN stopCountdown(t2, ok) ELSE t2
            IN  /\ timers' = [m EXCEPT ![key] = t3]
                /\ tcall' = [op |-> "put", arg |-> timerId, ret |-> "ok", time |-> time]
    /\ UNCHANGED <<loaded, orphans, exceptTimer>>

\* a method of the TimerInstance of timerId as a route calls it on the timer
\* getTimer found; without a timer the pause and resume routes answer 404
Method(op, t, x, ok) ==
    CASE op = "pause"    -> stopCountdown(t, ok)
      [] op = "resume"   -> startCountdown(t, ok)
      [] op = "add"      -> add(t, x, ok)
      [] op = "subtract" -> subtract(t, x, ok)
      [] op = "multiply" -> multiply(t, x, ok)
      [] op = "divide"   -> divide(t, x, ok)

OnTimer(op, timerId, x, ok) ==
    LET key == getTimer(timerId)
    IN  /\ IF key = NoKey
           THEN /\ UNCHANGED timers
                /\ tcall' = [op |-> op, arg |-> timerId, ret |-> "404", time |-> 0]
           ELSE /\ Method(op, timers[key], x, ok).currentTime \in Times
                /\ timers' = [timers EXCEPT ![key] = Method(op, @, x, ok)]
                /\ tcall' = [op |-> op, arg |-> timerId, ret |-> "ok", time |-> 0]
        /\ UNCHANGED <<loaded, orphans, exceptTimer>>

\* POST /timers/:timerId/pause (http.ts lines 268-290)
PauseTimer(timerId, ok) == OnTimer("pause", timerId, 0, ok)

\* POST /timers/:timerId/resume (http.ts lines 293-315)
ResumeTimer(timerId, ok) == OnTimer("resume", timerId, 0, ok)

\* timer.add, subtract, multiply, divide as the PATCH routes (http.ts lines
\* 113-246) call them on the timer of an id that exists; for an absent id the
\* routes first make a timer, with DEFAULT_INITIAL_TIME = 60 outside of Times
AddTime(timerId, seconds, ok) ==
    /\ getTimer(timerId) # NoKey
    /\ OnTimer("add", timerId, seconds, ok)
SubtractTime(timerId, seconds, ok) ==
    /\ getTimer(timerId) # NoKey
    /\ OnTimer("subtract", timerId, seconds, ok)
MultiplyTime(timerId, factor, ok) ==
    /\ getTimer(timerId) # NoKey
    /\ OnTimer("multiply", timerId, factor, ok)
DivideTime(timerId, divisor, ok) ==
    /\ getTimer(timerId) # NoKey
    /\ OnTimer("divide", timerId, divisor, ok)

\* the interval of the timer at key k fires
Tick(k, ok) ==
    /\ k \in DOMAIN timers
    /\ timers[k].live > 0
    /\ timers' = [timers EXCEPT ![k] = tick(@, ok)]
    /\ tcall' = [op |-> "tick", arg |-> NoKey, ret |-> "none", time |-> 0]
    /\ UNCHANGED <<loaded, orphans, exceptTimer>>

----------------------------------------------------------------------------
\* The duplicate guard step by step: acquireLock and createPidFile
\* (communication.ts) run by two processes of one host, every file-system call
\* a step of its own

Procs   == {"a", "b"}          \* the processes that start the server
DeadPid == "d"                 \* the pid of a process that ended without its exit handler
NoFile  == [ino |-> 0, content |-> "none"]

StepInit ==
    /\ lkFile = NoFile
    /\ lkIno = 0
    /\ lkProc = [p \in Procs |-> [pc |-> "idle", fd |-> 0, retries |-> 0, ret |-> "none"]]
    /\ pfFile = NoFile
    /\ pfIno = 0
    /\ pfProc = [p \in Procs |-> [pc |-> "idle", fd |-> 0, ret |-> "none", handler |-> FALSE]]

\* a process that held the lock ended without its exit handler, before the
\* processes of Procs start: LOCK_FILE is left behind with its pid
LockLeftBehind ==
    /\ \A p \in Procs : lkProc[p].pc = "idle"
    /\ lkFile = NoFile
    /\ lkFile' = [ino |-> lkIno + 1, content |-> DeadPid]
    /\ lkIno' = lkIno + 1
    /\ UNCHANGED <<lkProc, pfFile, pfIno, pfProc, exceptStep>>

\* the same for PIDFILE
PidLeftBehind ==
    /\ \A p \in Procs : pfProc[p].pc = "idle"
    /\ pfFile = NoFile
    /\ pfFile' = [ino |-> pfIno + 1, content |-> DeadPid]
    /\ pfIno' = pfIno + 1
    /\ UNCHANGED <<pfProc, lkFile, lkIno, lkProc, exceptStep>>

\* the processes that run: a process of Procs until its exit
LockAlive(pid) == pid \in Procs /\ lkProc[pid].pc # "exited"
PidAlive(pid)  == pid \in Procs /\ pfProc[pid].pc # "exited"

\* a process calls acquireLock (line 45)
LockStart(p) ==
    /\ lkProc[p].pc = "idle"
    /\ lkProc' = [lkProc EXCEPT ![p].pc = "open"]
    /\ UNCHANGED <<lkFile, lkIno, pfFile, pfIno, pfProc, exceptStep>>

\* fs.openSync(LOCK_FILE, "wx") (line 47): creates the file, empty, or fails with
\* EEXIST and goes to the catch of line 56
LockOpen(p) ==
    /\ lkProc[p].pc = "open"
    /\ IF lkFile = NoFile
       THEN /\ lkFile' = [ino |-> lkIno + 1, content |-> "empty"]
            /\ lkIno' = lkIno + 1
            /\ lkProc' = [lkProc EXCEPT ![p].pc = "write", ![p].fd = lkIno + 1]
       ELSE /\ lkProc' = [lkProc EXCEPT ![p].pc = "read"]
            /\ UNCHANGED <<lkFile, lkIno>>
    /\ UNCHANGED <<pfFile, pfIno, pfProc, exceptStep>>

\* fs.writeSync(fd, process.pid.toString()) (line 48): the pid goes into the file
\* that was opened, which LOCK_FILE names only if nobody unlinked it since
LockWrite(p) ==
    /\ lkProc[p].pc = "write"
    /\ lkFile' = IF lkFile.ino = lkProc[p].fd THEN [lkFile EXCEPT !.content = p] ELSE lkFile
    /\ lkProc' = [lkProc EXCEPT ![p].pc = "close"]
    /\ UNCHANGED <<lkIno, pfFile, pfIno, pfProc, exceptStep>>

\* fs.closeSync, process.on("exit"), return true (lines 49-55)
LockClose(p) ==
    /\ lkProc[p].pc = "close"
    /\ lkProc' = [lkProc EXCEPT ![p].pc = "done", ![p].ret = "true"]
    /\ UNCHANGED <<lkFile, lkIno, pfFile, pfIno, pfProc, exceptStep>>

\* lines 64-68: readFileSync, parseInt and process.kill(pid, 0) in one try; with a
\* running process recorded the call returns false; a missing file, an empty
\* file (parseInt gives NaN) and the pid of a process that ended go to the catch
LockRead(p) ==
    /\ lkProc[p].pc = "read"
    /\ lkProc' = IF lkFile # NoFile /\ LockAlive(lkFile.content)
                 THEN [lkProc EXCEPT ![p].pc = "done", ![p].ret = "false"]
                 ELSE [lkProc EXCEPT ![p].pc = "unlink"]
    /\ UNCHANGED <<lkFile, lkIno, pfFile, pfIno, pfProc, exceptStep>>

\* lines 69-71: fs.unlinkSync(LOCK_FILE), then return acquireLock(); without a
\* file unlinkSync throws out of acquireLock
LockUnlink(p) ==
    /\ lkProc[p].pc = "unlink"
    /\ IF lkFile = NoFile
       THEN /\ lkProc' = [lkProc EXCEPT ![p].pc = "done", ![p].ret = "threw"]
            /\ UNCHANGED lkFile
       ELSE /\ lkFile' = NoFile
            /\ lkProc' = [lkProc EXCEPT ![p].pc = "open", ![p].retries = @ + 1]
    /\ UNCHANGED <<lkIno, pfFile, pfIno, pfProc, exceptStep>>

\* the process that holds the lock exits: its exit handler (lines 50-54) unlinks
\* LOCK_FILE, whoever made it
LockExit(p) ==
    /\ lkProc[p].pc = "done"
    /\ lkProc[p].ret = "true"
    /\ lkProc' = [lkProc EXCEPT ![p].pc = "exited"]
    /\ lkFile' = NoFile
    /\ UNCHANGED <<lkIno, pfFile, pfIno, pfProc, exceptStep>>

\* a process calls createPidFile (line 79)
PidStart(p) ==
    /\ pfProc[p].pc = "idle"
    /\ pfProc' = [pfProc EXCEPT ![p].pc = "exists"]
    /\ UNCHANGED <<pfFile, pfIno, lkFile, lkIno, lkProc, exceptStep>>

\* fs.existsSync(PIDFILE) (line 82)
PidExists(p) ==
    /\ pfProc[p].pc = "exists"
    /\ pfProc' = [pfProc EXCEPT ![p].pc = IF pfFile # NoFile THEN "read" ELSE "write"]
    /\ UNCHANGED <<pfFile, pfIno, lkFile, lkIno, lkProc, exceptStep>>

\* lines 83-87: readFileSync throws without a file, into the catch of line 99 that
\* returns true; process.kill(pid, 0) on a running process returns false; an
\* empty file (parseInt gives NaN) and the pid of a process that ended go to the
\* catch of line 88
PidRead(p) ==
    /\ pfProc[p].pc = "read"
    /\ pfProc' = IF pfFile = NoFile
                 THEN [pfProc EXCEPT ![p].pc = "done", ![p].ret = "true"]
                 ELSE IF PidAlive(pfFile.content)
                 THEN [pfProc EXCEPT ![p].pc = "done", ![p].ret = "false"]
                 ELSE [pfProc EXCEPT ![p].pc = "unlink"]
    /\ UNCHANGED <<pfFile, pfIno, lkFile, lkIno, lkProc, exceptStep>>

\* line 89: fs.unlinkSync(PIDFILE); without a file it throws into the catch of
\* line 99 that returns true
PidUnlink(p) ==
    /\ pfProc[p].pc = "unlink"
    /\ IF pfFile = NoFile
       THEN /\ pfProc' = [pfProc EXCEPT ![p].pc = "done", ![p].ret = "true"]
            /\ UNCHANGED pfFile
       ELSE /\ pfFile' = NoFile
            /\ pfProc' = [pfProc EXCEPT ![p].pc = "write"]
    /\ UNCHANGED <<pfIno, lkFile, lkIno, lkProc, exceptStep>>

\* fs.writeFileSync(PIDFILE, ...) (line 92) opens the file for writing: it makes
\* the file, or empties the one that is there
PidWrite(p) ==
    /\ pfProc[p].pc = "write"
    /\ IF pfFile = NoFile
       THEN /\ pfFile' = [ino |-> pfIno + 1, content |-> "empty"]
            /\ pfIno' = pfIno + 1
            /\ pfProc' = [pfProc EXCEPT ![p].pc = "written", ![p].fd = pfIno + 1]
       ELSE /\ pfFile' = [pfFile EXCEPT !.content = "empty"]
            /\ pfProc' = [pfProc EXCEPT ![p].pc = "written", ![p].fd = pfFile.ino]
            /\ UNCHANGED pfIno
    /\ UNCHANGED <<lkFile, lkIno, lkProc, exceptStep>>

\* lines 92-98: writeFileSync writes the pid into the file it opened, then the
\* exit handler is registered and true returned
PidWritten(p) ==
    /\ pfProc[p].pc = "written"
    /\ pfFile' = IF pfFile.ino = pfProc[p].fd THEN [pfFile EXCEPT !.content = p] ELSE pfFile
    /\ pfProc' = [pfProc EXCEPT ![p].pc = "done", ![p].ret = "true", ![p].handler = TRUE]
    /\ UNCHANGED <<pfIno, lkFile, lkIno, lkProc, exceptStep>>

\* the process that got true exits: the exit handler (lines 93-97), if the call
\* came to register it, unlinks PIDFILE, whoever wrote it
PidExit(p) ==
    /\ pfProc[p].pc = "done"
    /\ pfProc[p].ret = "true"
    /\ pfProc' = [pfProc EXCEPT ![p].pc = "exited"]
    /\ pfFile' = IF pfProc[p].handler THEN NoFile ELSE pfFile
    /\ UNCHANGED <<pfIno, lkFile, lkIno, lkProc, exceptStep>>

----------------------------------------------------------------------------
\* The port probe step by step: createTcpServer with duplicateDetectionMethod
\* "port" and a specificPort (communication.ts), next to the other processes of
\* the host that bind and release the same ports

ProbePorts == {1, 2}                       \* options.specificPort
ListenErrors == {"none", "EACCES"}         \* what listen may fail with besides EADDRINUSE

ProbeInit ==
    /\ portOwner = [port \in ProbePorts |-> "free"]
    /\ probe = [n |-> 0, port |-> 1, pc |-> "idle", test |-> "none", ret |-> "none"]

\* createTcpServer(..., {duplicateDetectionMethod: "port", specificPort}) is
\* called (lines 204-213) and checkPortAvailability makes its test server
ProbeCall(port) ==
    /\ probe.pc \in {"idle", "done"}
    /\ probe.n < MaxStarts
    /\ probe' = [n |-> probe.n + 1, port |-> port, pc |-> "test", test |-> "none",
                 ret |-> "none"]
    /\ UNCHANGED <<portOwner, exceptProbe>>

\* Mutation of ResolveOnClose: the promise resolves at once, the close pending.
ResolveAtOnce(pr) == [pr EXCEPT !.pc = "start", !.test = "bound"]

\* line 108-109: the test listener is bound, and true is resolved only by the
\* callback of testServer.close
ResolveOnClose(pr) == [pr EXCEPT !.pc = "close", !.test = "bound"]

\* testServer.listen(port) (lines 108-113): the listener is bound, or 'error'
\* comes and resolves err.code !== "EADDRINUSE"; with false createTcpServer
\* returns false (line 218)
TestListen(err) ==
    /\ probe.pc = "test"
    /\ IF err # "none"
       THEN /\ probe' = [probe EXCEPT !.pc = "start", !.test = err]
            /\ UNCHANGED portOwner
       ELSE IF portOwner[probe.port] # "free"
       THEN /\ probe' = [probe EXCEPT !.pc = "done", !.test = "EADDRINUSE", !.ret = "false"]
            /\ UNCHANGED portOwner
       ELSE /\ probe' = ResolveOnClose(probe)
            /\ portOwner' = [portOwner EXCEPT ![probe.port] = "test"]
    /\ UNCHANGED exceptProbe

\* the test listener is closed and the callback of line 109 resolves true
TestClose ==
    /\ \E port \in ProbePorts : portOwner[port] = "test"
    /\ portOwner' = [port \in ProbePorts |->
                        IF portOwner[port] = "test" THEN "free" ELSE portOwner[port]]
    /\ probe' = IF probe.pc = "close" THEN [probe EXCEPT !.pc = "start"] ELSE probe
    /\ UNCHANGED exceptProbe

\* startTcpServer(specificPort) (lines 219-224): server.listen binds the real
\* listener and resolves, or 'error' rejects the promise (lines 174-182)
RealListen(err) ==
    /\ probe.pc = "start"
    /\ IF err = "none" /\ portOwner[probe.port] = "free"
       THEN /\ portOwner' = [portOwner EXCEPT ![probe.port] = "real"]
            /\ probe' = [probe EXCEPT !.pc = "done", !.ret = "listening"]
       ELSE /\ probe' = [probe EXCEPT !.pc = "done", !.ret = "rejected"]
            /\ UNCHANGED portOwner
    /\ UNCHANGED exceptProbe

\* another process of the host binds a free port, or closes its listener
ProbeOtherBinds(port) ==
    /\ portOwner[port] = "free"
    /\ portOwner' = [portOwner EXCEPT ![port] = "other"]
    /\ UNCHANGED <<probe, exceptProbe>>

ProbeOtherCloses(port) ==
    /\ portOwner[port] = "other"
    /\ portOwner' = [portOwner EXCEPT ![port] = "free"]
    /\ UNCHANGED <<probe, exceptProbe>>

----------------------------------------------------------------------------
\* The connection listener of startTcpServer (communication.ts lines 124-172)
\* with user callbacks that may throw. An exception that leaves the callback of
\* an event is an uncaught exception of the process, which ends it.

\* what a client writes in one write: frames of sendMessage and a line that is
\* no JSON
CbWrites == {Chunk(<<>>), Chunk(<<"a">>), <<"61", "0A">>}

CbInit ==
    /\ cbSock = [status |-> "none", entered |-> FALSE, inbox |-> <<>>, buf |-> <<>>,
                 nIn |-> 0, parsed |-> 0]
    /\ cbCalls = <<>>
    /\ escaped = "none"

\* lines 124-131: the 'connection' event: the socket is entered in serverClients
\* and onClientConnected?.(socket, socketId) is called, outside of any try; the
\* listeners of the socket are subscribed after it
CbConnection(throws) ==
    /\ escaped = "none"
    /\ cbSock.status = "none"
    /\ cbSock' = [cbSock EXCEPT !.status = "open", !.entered = TRUE]
    /\ cbCalls' = Append(cbCalls, [cb |-> "onClientConnected", threw |-> throws])
    /\ escaped' = IF throws THEN "connection" ELSE "none"
    /\ UNCHANGED exceptCb

\* the client writes; the bytes wait for the next 'data' event
CbWrite(bytes) ==
    /\ escaped = "none"
    /\ cbSock.status = "open"
    /\ cbSock.nIn < MaxBurst
    /\ cbSock' = [cbSock EXCEPT !.inbox = @ \o bytes, !.nIn = @ + 1]
    /\ UNCHANGED <<cbCalls, escaped, exceptCb>>

\* lines 140-150: onDataCallback is called for every message of the read, each
\* call in its own try with JSON.parse; throwing is the set of the calls that throw
DataCalls(msgs, throwing) ==
    [k \in 1..Len(msgs) |-> [cb |-> "onDataCallback", threw |-> k \in throwing]]

\* the 'data' event (lines 132-152)
CbData(throwing) ==
    /\ escaped = "none"
    /\ cbSock.status = "open"
    /\ cbSock.inbox # <<>>
    /\ LET r == Deframe(cbSock.buf \o Utf8Decode(cbSock.inbox))
       IN  /\ throwing \subseteq 1..Len(r.msgs)
           /\ cbSock' = [cbSock EXCEPT !.inbox = <<>>, !.buf = r.buffer,
                                       !.parsed = @ + Len(r.msgs)]
           /\ cbCalls' = cbCalls \o DataCalls(r.msgs, throwing)
    /\ UNCHANGED <<escaped, exceptCb>>

\* the 'end' event (lines 154-158): onClientDisconnected?.() outside of any try
CbEnd(throws) ==
    /\ escaped = "none"
    /\ cbSock.status = "open"
    /\ cbSock.inbox = <<>>
    /\ cbSock' = [cbSock EXCEPT !.status = "ended", !.entered = FALSE]
    /\ cbCalls' = Append(cbCalls, [cb |-> "onClientDisconnected", threw |-> throws])
    /\ escaped' = IF throws THEN "end" ELSE "none"
    /\ UNCHANGED exceptCb

\* the 'error' event (lines 160-165) only logs; the socket is destroyed
CbError ==
    /\ escaped = "none"
    /\ cbSock.status \in {"open", "ended"}
    /\ cbSock' = [cbSock EXCEPT !.status = "destroyed"]
    /\ UNCHANGED <<cbCalls, escaped, exceptCb>>

\* the 'close' event (lines 167-172): onClientDisconnected?.() outside of any
\* try, if the entry is still there
CbClose(throws) ==
    /\ escaped = "none"
    /\ cbSock.status \in {"ended", "destroyed"}
    /\ IF cbSock.entered
       THEN /\ cbSock' = [cbSock EXCEPT !.status = "closed", !.entered = FALSE]
            /\ cbCalls' = Append(cbCalls, [cb |-> "onClientDisconnected", threw |-> throws])
            /\ escaped' = IF throws THEN "close" ELSE "none"
       ELSE /\ ~throws
            /\ cbSock' = [cbSock EXCEPT !.status = "closed"]
            /\ UNCHANGED <<cbCalls, escaped>>
    /\ UNCHANGED exceptCb

----------------------------------------------------------------------------
\* Specifications

Init == PoolInit /\ RegInit /\ FrameInit /\ GuardInit /\ SvcInit /\ BcastInit
        /\ SendInit /\ ConnInit /\ TimerInit /\ StepInit /\ ProbeInit
        /\ CbInit

NextPool ==
    \/ \E p \in PeerKeys : ConnectToPeer(p)
    \/ \E s \in SockIds : OnConnect(s)
    \/ \E s \in SockIds : SocketFails(s)
    \/ \E s \in SockIds : RemoteCloses(s)
    \/ \E s \in SockIds : OnError(s)
    \/ \E s \in SockIds : OnClose(s)
    \/ CloseAllConnections

SpecPool == Init /\ [][NextPool]_vars

NextReg ==
    \/ \E service \in Services : AddPeer(service)
    \/ \E service \in Services : RemovePeer(service)

SpecReg == Init /\ [][NextReg]_vars

NextFrame ==
    \/ Accept
    \/ \E payload \in Payloads : SendMessage(payload)
    \/ \E bytes \in RawWrites : RawWrite(bytes)
    \/ \E n \in 1..Len(wire) : OnData(n)
    \/ OnEnd
    \/ OnInboundError
    \/ OnInboundClose
    \/ CloseAllConnections

SpecFrame == Init /\ [][NextFrame]_vars

NextGuard ==
    \/ \E options \in TcpServerOptions : CreateTcpServer(options)
    \/ \E pid \in OtherPids : OtherStarts(pid)
    \/ \E pid \in OtherPids, file \in {"LOCK_FILE", "PIDFILE"} : OtherCreatesMarker(pid, file)
    \/ \E pid \in OtherPids, file \in {"LOCK_FILE", "PIDFILE"} : OtherWritesPid(pid, file)
    \/ \E port \in SpecificPorts : OtherBinds(port)
    \/ \E pid \in OtherPids, clean \in BOOLEAN : OtherExits(pid, clean)

SpecGuard == Init /\ [][NextGuard]_vars

\* the service of one process, next to one other instance of the host
NextSvc ==
    \/ StartCall
    \/ \E i \in 1..Len(starts), throws \in BOOLEAN : StartResume(i, throws)
    \/ \E b \in browsers, service \in DiscRecords : BrowserUp(b, service)
    \/ \E b \in browsers, service \in DiscRecords : BrowserDown(b, service)
    \/ Stop
    \/ \E i \in 1..Len(stopCbs) : StopCallback(i)
    \/ OtherStarts("o1")
    \/ OtherCreatesMarker("o1", "PIDFILE")

SpecSvc == Init /\ [][NextSvc]_vars

\* a broadcast over the pool, the peers being discovered meanwhile
NextBcast ==
    \/ \E service \in BcastPeers : AddPeer(service)
    \/ BroadcastCall
    \/ BroadcastConnect
    \/ BroadcastResume
    \/ \E s \in SockIds : OnConnect(s)
    \/ \E s \in SockIds : SocketFails(s)
    \/ \E s \in SockIds : OnError(s)
    \/ \E s \in SockIds : OnClose(s)

SpecBcast == Init /\ [][NextBcast]_vars

NextSend ==
    \/ \E arg \in SocketArgs, payload \in SendPayloads : SendMessageTo(arg, payload)
    \/ SocketEnds
    \/ SocketDestroyed

SpecSend == Init /\ [][NextSend]_vars

NextConn ==
    \/ \E id \in SocketIds : AcceptConn(id)
    \/ \E p \in PeerKeys : DialConn(p)
    \/ \E c \in ConnIds, payload \in Payloads : FrameArrives(c, payload)
    \/ \E c \in ConnIds : SocketData(c)
    \/ \E c \in ConnIds : SocketEnd(c)
    \/ \E c \in ConnIds : SocketError(c)
    \/ \E c \in ConnIds : SocketClose(c)

SpecConn == Init /\ [][NextConn]_vars

\* the TimerManager: its calls with numbers and strings as ids, subscribers, and
\* resume to have countdowns that run
NextTimers ==
    \/ \E storage \in SUBSET StoredTimers : LoadFromFile(storage)
    \/ \E timerId \in TimerIds, initialTime \in {0, MaxTime} :
          GetOrCreateTimer(timerId, initialTime)
    \/ \E timerId \in TimerIds : RemoveTimer(timerId)
    \/ \E k \in DOMAIN timers, w \in SubscriberIds, sendOk \in BOOLEAN : Subscribe(k, w, sendOk)
    \/ \E k \in DOMAIN timers, w \in SubscriberIds : Unsubscribe(k, w)
    \/ \E timerId \in RouteIds, ok \in SUBSET SubscriberIds : ResumeTimer(timerId, ok)

SpecTimers == Init /\ [][NextTimers]_vars

\* the countdown of the timers of CountdownIds: the routes and the interval
NextCountdown ==
    \/ \E timerId \in CountdownIds, ok \in SUBSET SubscriberIds :
          \/ \E time \in {0 - 1} \cup Times : PutTimer(timerId, time, ok)
          \/ PauseTimer(timerId, ok)
          \/ ResumeTimer(timerId, ok)
          \/ \E seconds \in Times : AddTime(timerId, seconds, ok) \/ SubtractTime(timerId, seconds, ok)
          \/ \E factor \in 0..2 : MultiplyTime(timerId, factor, ok)
          \/ \E divisor \in 1..2 : DivideTime(timerId, divisor, ok)
    \/ \E k \in DOMAIN timers, w \in SubscriberIds, sendOk \in BOOLEAN : Subscribe(k, w, sendOk)
    \/ \E k \in DOMAIN timers, ok \in SUBSET SubscriberIds : Tick(k, ok)

SpecCountdown == Init /\ [][NextCountdown]_vars

\* two processes in acquireLock
NextLock ==
    \/ LockLeftBehind
    \/ \E p \in Procs :
        \/ LockStart(p) \/ LockOpen(p) \/ LockWrite(p) \/ LockClose(p)
        \/ LockRead(p) \/ LockUnlink(p) \/ LockExit(p)

SpecLock == Init /\ [][NextLock]_vars

\* two processes in createPidFile
NextPid ==
    \/ PidLeftBehind
    \/ \E p \in Procs :
        \/ PidStart(p) \/ PidExists(p) \/ PidRead(p) \/ PidUnlink(p)
        \/ PidWrite(p) \/ PidWritten(p) \/ PidExit(p)

SpecPid == Init /\ [][NextPid]_vars

NextProbe ==
    \/ \E port \in ProbePorts : ProbeCall(port)
    \/ \E err \in ListenErrors : TestListen(err)
    \/ TestClose
    \/ \E err \in ListenErrors : RealListen(err)
    \/ \E port \in ProbePorts : ProbeOtherBinds(port)
    \/ \E port \in ProbePorts : ProbeOtherCloses(port)

SpecProbe == Init /\ [][NextProbe]_vars

NextCb ==
    \/ \E throws \in BOOLEAN : CbConnection(throws)
    \/ \E bytes \in CbWrites : CbWrite(bytes)
    \/ \E throwing \in SUBSET (1..MaxBurst) : CbData(throwing)
    \/ \E throws \in BOOLEAN : CbEnd(throws)
    \/ CbError
    \/ \E throws \in BOOLEAN : CbClose(throws)

SpecCb == Init /\ [][NextCb]_vars

Next ==
    \/ NextPool \/ NextReg \/ NextFrame \/ NextGuard \/ NextSvc \/ NextBcast \/ NextSend
    \/ NextConn \/ NextTimers \/ NextCountdown \/ NextLock \/ NextPid \/ NextProbe \/ NextCb

Spec == Init /\ [][Next]_vars

----------------------------------------------------------------------------
\* Claims about the outbound pool (checked under SpecPool)

LiveOutbound(p) == {s \in SockIds : sockets[s].peer = p /\ sockets[s].status = "open"}

\* C1: at any time at most one live (connected, not destroyed) outbound socket
\* exists per peerKey, under any interleaving of connectToPeer calls.
\* Violated: a connectToPeer issued while the first dial is pending dials again,
\* and both dials succeed.
C1_AtMostOneLiveOutbound == \A p \in PeerKeys : Cardinality(LiveOutbound(p)) <= 1

\* C2: a connectToPeer call that directly follows the resolution of a connectToPeer
\* promise for the same peer (by a completed dial or by a pooled socket), while
\* that socket is not destroyed, resolves with the same socket and creates none.
C2_ConnectTwiceSameHandle ==
    [][ ( /\ last'.op = "connect"
          /\ last.ret # 0
          /\ last'.peer = last.peer
          /\ ~Destroyed(last.ret) )
        => ( /\ last'.ret = last.ret
             /\ ~last'.dialed
             /\ sockets' = sockets ) ]_vars

\* C2 witness: one socket was dialed, its promise resolved, and the connectToPeer
\* call made right after returned that socket.
C2_Witness ==
    /\ Len(sockets) = 1
    /\ last.op = "connect"
    /\ last.after = "connected"
    /\ last.ret = 1
    /\ ~last.dialed
    /\ sockets[1].promise = "resolved"

\* C3: once the 'error' handler of an outbound socket has run (the error came during
\* the dial or after the socket was established) no pool entry holds that socket;
\* no connectToPeer call resolves with a socket that errored or is destroyed; and
\* the connectToPeer call that directly follows the error handler, for the same
\* peer, creates a new socket.
C3_ErroredNotReused ==
    /\ [](\A s \in SockIds : sockets[s].errHandled =>
              \A p \in PeerKeys : outgoingConnections[p] # s)
    /\ [][ last'.op = "connect" =>
             /\ last'.ret # 0 =>
                  /\ ~sockets[last'.ret].errHandled
                  /\ sockets[last'.ret].status = "open"
             /\ (last.op = "error" /\ last.peer = last'.peer) =>
                  /\ last'.dialed
                  /\ Len(sockets') = Len(sockets) + 1
                  /\ sockets'[Len(sockets')] = NewSocket(last.peer)
                  /\ last'.sock = Len(sockets') ]_vars

\* C3 witness: an established socket errored, and the next call for its peer dialed.
C3_Witness ==
    /\ last.op = "connect"
    /\ last.after = "error"
    /\ last.dialed
    /\ sockets[last.sock].status = "connecting"
    /\ \E s \in SockIds :
          /\ sockets[s].peer = last.peer
          /\ sockets[s].errHandled
          /\ sockets[s].promise = "resolved"

----------------------------------------------------------------------------
\* Claims about the peer registry (checked under SpecReg)

EntriesOf(m, k) == {i \in 1..Len(m) : m[i].fqdn = k}

PeerUpsOf(k) ==
    Len(SelectSeq(emitted, LAMBDA e : e.ev = "peerUp" /\ e.rec.fqdn = k))

\* C4: the registry never holds two entries of one peerKey; an addPeer of a record
\* whose peerKey is absent inserts it and emits exactly one peerUp carrying it; an
\* addPeer of a record whose peerKey is present replaces the stored record (the
\* lookup by key returns the new record), adds no entry and emits nothing.
C4_AddPeerTwiceOneEntryOneUp ==
    /\ [](\A k \in Fqdns : Cardinality(EntriesOf(peers, k)) <= 1)
    /\ [][ (call'.op = "add" /\ HasFqdn(call'.arg)) =>
             LET k == call'.arg.fqdn
             IN  /\ MapGet(peers', k) = call'.arg
                 /\ Cardinality(EntriesOf(peers', k)) = 1
                 /\ IF MapHas(peers, k)
                    THEN /\ emitted' = emitted
                         /\ Len(peers') = Len(peers)
                    ELSE /\ emitted' = Append(emitted, [ev |-> "peerUp", rec |-> call'.arg])
                         /\ Len(peers') = Len(peers) + 1 ]_vars

\* C4 witness: a second addPeer with the key of a stored record and other contents
\* has replaced it, and one peerUp was emitted for the key.
C4_Witness ==
    /\ call.op = "add"
    /\ call.had
    /\ call.old # call.arg
    /\ GetPeerByFqdn(call.arg.fqdn) = call.arg
    /\ Cardinality(EntriesOf(peers, call.arg.fqdn)) = 1
    /\ PeerUpsOf(call.arg.fqdn) = 1

\* C5: removePeer with an argument whose peerKey is not in the registry (or that
\* has none) leaves the registry as it is and emits nothing.
C5_RemoveAbsentNoOp ==
    [][ (call'.op = "remove" /\ ~(HasFqdn(call'.arg) /\ MapHas(peers, call'.arg.fqdn)))
        => (peers' = peers /\ emitted' = emitted) ]_vars

\* C5 witness: removePeer was called with a key absent from a registry that
\* holds another peer.
C5_Witness ==
    /\ call.op = "remove"
    /\ HasFqdn(call.arg)
    /\ ~call.had
    /\ Len(peers) > 0
    /\ \A i \in 1..Len(emitted) : emitted[i].ev = "peerUp"

\* C6: removePeer(record) with a peerKey that is present deletes exactly that entry
\* and emits exactly one peerDown, carrying the record that was stored under the
\* key; afterwards the lookup by that key finds nothing.
C6_RemovePresentEmitsStored ==
    [][ (call'.op = "remove" /\ HasFqdn(call'.arg) /\ MapHas(peers, call'.arg.fqdn)) =>
          LET k == call'.arg.fqdn
          IN  /\ emitted' = Append(emitted, [ev |-> "peerDown", rec |-> MapGet(peers, k)])
              /\ peers' = SelectSeq(peers, LAMBDA e : e.fqdn # k)
              /\ ~MapHas(peers', k)
              /\ MapGet(peers', k) = NullService ]_vars

\* C6 witness: the record passed to removePeer differs from the stored one, and
\* the peerDown emitted carries the stored one.
C6_Witness ==
    /\ call.op = "remove"
    /\ call.had
    /\ call.old # call.arg
    /\ emitted # <<>>
    /\ emitted[Len(emitted)] = [ev |-> "peerDown", rec |-> call.old]
    /\ GetPeerByFqdn(call.arg.fqdn) = NullService

----------------------------------------------------------------------------
\* Claims about the framing (checked under SpecFrame)

\* The delimiter-terminated fragments of a text, in order, and the JSON values of
\* those that are not empty and parse: what a de-framer is to dispatch.

\* the fragment that ends at the delimiter at position i
FragmentBefore(text, i) ==
    LET earlier == {j \in 1..(i - 1) : text[j] = P2P_MESSAGE_DELIMITER}
        start == IF earlier = {} THEN 1
                 ELSE (CHOOSE j \in earlier : \A l \in earlier : l <= j) + 1
    IN  SubSeq(text, start, i - 1)

CompleteFragments(text) ==
    LET ends == SelectSeq([i \in 1..Len(text) |-> i],
                          LAMBDA i : text[i] = P2P_MESSAGE_DELIMITER)
    IN  [k \in 1..Len(ends) |-> FragmentBefore(text, ends[k])]

WellFormed(fragment) == fragment # <<>> /\ JsonParse(fragment).ok

Malformed(fragment) == fragment # <<>> /\ ~JsonParse(fragment).ok

ValuesOf(fragments) ==
    LET ok == SelectSeq(fragments, WellFormed)
    IN  [i \in 1..Len(ok) |-> JsonParse(ok[i]).val]

\* C7: when every write to the stream was made by sendMessage and every byte
\* written has been read, onDataCallback has been invoked exactly once per
\* payload, in order, with a value equal to the payload.
\* Violated: a read that ends inside a multi-byte character (see C9).
C7_RoundTripFidelity == (nRaw = 0 /\ wire = <<>>) => dispatched = sent

\* C8: a read dispatches the values of the well-formed fragments that it completes,
\* in the order they have in the stream, after the earlier dispatches; a single
\* read (into an empty buffer) that holds two complete well-formed messages
\* dispatches exactly these two, in order.
C8_TwoMessagesInOrder ==
    [][ stream' # stream =>
          LET text == buffer \o Utf8Decode(lastRead')
              frs  == CompleteFragments(text)
          IN  /\ stream' = stream \o lastRead'
              /\ dispatched' = dispatched \o ValuesOf(frs)
              /\ (buffer = <<>> /\ Len(frs) = 2 /\ WellFormed(frs[1]) /\ WellFormed(frs[2]))
                   => /\ Len(dispatched') = Len(dispatched) + 2
                      /\ dispatched'[Len(dispatched) + 1] = JsonParse(frs[1]).val
                      /\ dispatched'[Len(dispatched) + 2] = JsonParse(frs[2]).val ]_vars

\* C8 witness: the only read so far held two messages written by sendMessage, and
\* both were dispatched in the order sent.
C8_Witness ==
    /\ Len(sent) = 2
    /\ sent[1] # sent[2]
    /\ nRaw = 0
    /\ lastRead = stream
    /\ wire = <<>>
    /\ dispatched = sent

\* C9: the dispatches made, and the buffer left, after the stream was read in any
\* number of reads are those of one read of the whole stream.
\* Violated: each read is decoded on its own (data.toString("utf8")), so a
\* multi-byte character cut by a read boundary arrives as U+FFFD U+FFFD.
C9_ChunkingIndependent ==
    /\ dispatched = Deframe(Utf8Decode(stream)).msgs
    /\ buffer = Deframe(Utf8Decode(stream)).buffer

\* C10: over the text the handler decodes from its reads, exactly the well-formed
\* fragments are dispatched: a malformed fragment yields no onDataCallback call and
\* every well-formed fragment after it (in the same read or a later one) is
\* dispatched; a read neither closes the socket nor removes it from serverClients.
C10_MalformedDropped ==
    /\ [](dispatched = ValuesOf(CompleteFragments(rcvd)))
    /\ [][ stream' # stream =>
             /\ sockState' = "open"
             /\ serverClients' = serverClients
             /\ SocketId \in serverClients' ]_vars

\* C10 witness: a malformed fragment was followed by a well-formed one in the same
\* read; the latter was dispatched and the socket is open and in serverClients.
C10_Witness ==
    LET frs == CompleteFragments(Utf8Decode(lastRead))
    IN  /\ lastRead = stream
        /\ Len(frs) = 2
        /\ Malformed(frs[1])
        /\ WellFormed(frs[2])
        /\ dispatched = <<JsonParse(frs[2]).val>>
        /\ sockState = "open"
        /\ SocketId \in serverClients

----------------------------------------------------------------------------
\* Claims about the duplicate-instance guard (checked under SpecGuard)

\* the marker file of the method, as the call finds it, records a running process
MarkerHeldByLive(method) ==
    LET content == IF method = "lockfile" THEN lockFile ELSE pidFile
    IN  content = Self \/ content \in alive

\* C11: with preventDuplicates = true and the marker file of the method (lock file
\* or PID file) recording a running process, a createTcpServer call returns false
\* and binds no listening socket.
C11_HeldMarkerRefusesStart ==
    [][(/\ gcall'.n # gcall.n
        /\ gcall'.preventDuplicates
        /\ gcall'.method \in {"lockfile", "pidfile"}
        /\ MarkerHeldByLive(gcall'.method))
       => (gcall'.ret = "false" /\ listening' = listening)]_vars

\* a second call was refused because of a marker this process or another running
\* one holds, while the first call's listener is up
C11_Witness ==
    /\ gcall.n = 2
    /\ gcall.preventDuplicates
    /\ gcall.method \in {"lockfile", "pidfile"}
    /\ MarkerHeldByLive(gcall.method)
    /\ gcall.ret = "false"
    /\ Cardinality(listening) = 1

----------------------------------------------------------------------------
\* Claims about P2PService and discovery (checked under SpecSvc)

\* C12: when createTcpServer returns false, start() aborts: it publishes no
\* advertisement, starts no browser and registers no peerUp listener.
\* Violated: start() goes on after logging the failure.
C12_SentinelAbortsStart ==
    [][(svc'.n # svc.n /\ svc'.op = "start" /\ svc'.sentinel)
       => (adverts' = adverts /\ browsers' = browsers /\ subs' = subs)]_vars

\* the record is the advertisement ad of this instance: same name, same port
SameNameAndPort(service, ad) == service.name = ad.name /\ service.port = ad.port

\* C15: a discovery record whose name and port equal this instance's published
\* name and port is not passed to PeerManager.addPeer; no step puts such a record
\* into the registry or emits peerUp for it.
C15_SelfRecordFiltered ==
    [][\A ad \in adverts :
         /\ (call' # call /\ call'.op = "add") => ~SameNameAndPort(call'.arg, ad)
         /\ \A k \in 1..Len(peers') :
               SameNameAndPort(peers'[k], ad) => \E j \in 1..Len(peers) : peers[j] = peers'[k]
         /\ Len(emitted') > Len(emitted) =>
               ~(/\ emitted'[Len(emitted')].ev = "peerUp"
                 /\ SameNameAndPort(emitted'[Len(emitted')].rec, ad))]_vars

\* the browser is running with a listener subscribed, a record of another
\* instance that carries this instance's name was added, and the registry holds
\* no record with this instance's name and port
C15_Witness ==
    /\ browsers # {}
    /\ subs > 0
    /\ call.op = "add"
    /\ call.arg.name = InstanceName
    /\ Len(peers) > 0
    /\ \A ad \in adverts, k \in 1..Len(peers) : ~SameNameAndPort(peers[k], ad)

\* C21: stopDiscovery is idempotent and safe: called before any start, again
\* after it resolved, or again while an earlier call still waits for the unpublish
\* callback, every call resolves, and at each resolution no advertisement and no
\* discovery instance is active.
C21_StopResolvesWithNothingActive ==
    [][(\/ Len(stopCbs') < Len(stopCbs)
        \/ (svc.op # "stop" /\ svc'.op = "stop" /\ stopCbs' = stopCbs))
       => (bonjourInstance' = 0 /\ adverts' = {} /\ publishedService' = NoAdvert)]_vars

\* a second stopDiscovery was called while the first one waited: one of the two
\* callbacks has run and resolved its call, the other is still to come
C21_Witness ==
    /\ Len(stopCbs) = 1
    /\ svc.op = "stopped"
    /\ bonjourInstance = 0
    /\ adverts = {}

\* C22: start() publishes only after the listener is bound: it reaches
\* bonjourInstance.publish only when its createTcpServer call bound a listener,
\* and the port of every active advertisement is a port the listener is bound to.
\* Violated: after the sentinel start() goes on to publish without a port.
C22_PublishAfterBind ==
    /\ [](\A ad \in adverts : ad.port \in listening)
    /\ [][(svc'.n # svc.n /\ svc'.op = "start" /\ nBonjour' # nBonjour)
          => ~svc'.sentinel]_vars

\* C20: at most one advertisement is active, and a start() that reaches
\* startDiscovery while discovery is active creates no advertisement and no browser
\* and leaves the active advertisement as it is.
C20_OneAdvertisement ==
    /\ [](Cardinality(adverts) <= 1 /\ Cardinality(browsers) <= 1)
    /\ [][(svc'.n # svc.n /\ svc'.op = "start" /\ bonjourInstance # 0)
          => (/\ adverts' = adverts
              /\ browsers' = browsers
              /\ publishedService' = publishedService
              /\ bonjourInstance' = bonjourInstance
              /\ nBonjour' = nBonjour)]_vars

\* a second start() has run startDiscovery while the first advertisement was
\* active, and that advertisement is still the only one
C20_Witness ==
    /\ svc.op = "start"
    /\ subs = 2
    /\ nBonjour = 1
    /\ adverts = {publishedService}
    /\ publishedService.port # 0

----------------------------------------------------------------------------
\* Claims about broadcast (checked under SpecBcast)

\* C13: a rejected connect for one peer does not end the loop: broadcast never
\* rejects, and when it has returned, connect was attempted for every peer it read,
\* in order, each followed by a send unless its connect rejected.
C13_BroadcastSurvivesReject ==
    /\ bcast.pc # "rejected"
    /\ bcast.pc = "done" =>
          /\ Len(bcast.log) = Len(bcast.targets)
          /\ \A k \in 1..Len(bcast.log) :
                /\ bcast.log[k].peer = bcast.targets[k]
                /\ bcast.log[k].out \in {"sent", "sendFalse", "rejected"}

\* a broadcast over two peers has returned: the connect of the first rejected,
\* the message was sent to the second
C13_Witness ==
    /\ bcast.pc = "done"
    /\ Len(bcast.log) = 2
    /\ bcast.log[1].out = "rejected"
    /\ bcast.log[2].out = "sent"

\* C14: a dial that never completes does not hold up the other peers: while peers
\* of the broadcast are still to be attempted, the broadcast can take its next
\* step without waiting for the pending dial.
\* Violated: the loop awaits each connectToPeer before it turns to the next peer.
C14_PendingDialDoesNotHoldBroadcast ==
    (/\ bcast.pc = "await"
     /\ sockets[bcast.sock].promise = "pending"
     /\ bcast.i < Len(bcast.targets))
    => ENABLED BroadcastStep

----------------------------------------------------------------------------
\* Claims about closeAllConnections (checked under SpecPool)

\* C19: after closeAllConnections every socket dialed by connectToPeer that was
\* still live (connecting or connected) is destroyed, and the inbound table and
\* the outbound pool are empty.
\* Violated: only the sockets found in the tables are destroyed, and a dialed
\* socket is in the pool only from its connect callback on.
C19_CloseAllDestroysEverySocket ==
    [][last'.op = "closeAll" =>
          /\ \A s \in SockIds : sockets'[s].status = "destroyed"
          /\ \A p \in PeerKeys : outgoingConnections'[p] = 0
          /\ serverClients' = {}]_vars

----------------------------------------------------------------------------
\* Claims about sendMessage (checked under SpecSend)

\* the text is a JSON serialization of the payload followed by one delimiter, the
\* only one in the text
SerializedWithOneDelimiter(text, payload) ==
    /\ Len(text) >= 1
    /\ text[Len(text)] = "LF"
    /\ \A k \in 1..(Len(text) - 1) : text[k] # "LF"
    /\ JsonParse(SubSeq(text, 1, Len(text) - 1)) = [ok |-> TRUE, val |-> payload]

----------------------------------------------------------------------------
\* Claims about the sockets the module owns (checked under SpecConn)

\* C16: data that arrived on any open socket of the module, accepted or dialed,
\* is handed to the de-framing 'data' listener.
\* Violated: connectToPeer subscribes to no 'data' event.
C16_DataOnAnySocketIsRead ==
    \A c \in ConnIds :
        (conns[c].status = "open" /\ conns[c].inbox # <<>>) => ENABLED SocketData(c)

\* C17: for every accepted connection, once its 'end' or 'close' listener has run
\* the table holds no entry for it, and its listeners call onClientDisconnected
\* at most once.
\* Violated: the 'close' listener tests the socketId, which a later connection
\* from the same remote endpoint has entered again.
C17_DisconnectedOnceAndRemoved ==
    \A c \in ConnIds :
        conns[c].dir = "in" =>
            /\ conns[c].nDisc <= 1
            /\ conns[c].status \in {"ended", "closed"} => clientTable[conns[c].id] # c


----------------------------------------------------------------------------
\* Claims about the TimerManager (checked under SpecTimers)

C24_DefaultTimerStays ==
    /\ [](getTimer(defaultTimerId) = defaultTimerId)
    /\ [][(tcall'.op = "remove" /\ Normalize(tcall'.arg) = defaultTimerId)
          => tcall'.ret = "false"]_vars

\* C25: removeTimer(id) returns true exactly when a timer of that id exists that
\* is not the default timer and has no subscribers; after true getTimer(id) is
\* undefined and no interval of the removed timer is left; after false the
\* timers are as before.
\* Violated: removeTimer("0") returns true for the default timer.
C25_RemoveResult ==
    [][tcall'.op = "remove"
       => LET key == getTimer(tcall'.arg)
          IN  /\ (tcall'.ret = "true") <=>
                    (key # NoKey /\ key # defaultTimerId /\ timers[key].subscribers = {})
              /\ tcall'.ret = "true" =>
                    (Lookup(timers', tcall'.arg) = NoKey /\ orphans' = orphans)
              /\ tcall'.ret = "false" => timers' = timers]_vars

----------------------------------------------------------------------------
\* Claims about the countdown of a timer (checked under SpecCountdown)

\* the timer of the id of the latest call, before and after the step
TimerBefore == timers[getTimer(tcall'.arg)]
TimerAfter  == timers'[Lookup(timers', tcall'.arg)]

\* C26: PUT /timers/:timerId with time T creates the timer if it is absent and
\* updates it if it is present, whatever its state: afterwards currentTime = T,
\* the timer runs on one interval when T > 0 and is completed without an interval
\* when T = 0, and no other timer changed; a negative T is rejected and leaves
\* the timers as they were.
C26_PutSetsTimeAndState ==
    [][tcall'.op = "put"
       => IF tcall'.time < 0
          THEN tcall'.ret = "error" /\ timers' = timers
          ELSE /\ tcall'.ret = "ok"
               /\ Lookup(timers', tcall'.arg) # NoKey
               /\ DOMAIN timers' = DOMAIN timers \cup {Lookup(timers', tcall'.arg)}
               /\ getTimer(tcall'.arg) # NoKey => Lookup(timers', tcall'.arg) = getTimer(tcall'.arg)
               /\ \A k \in DOMAIN timers : k # Lookup(timers', tcall'.arg) => timers'[k] = timers[k]
               /\ TimerAfter.currentTime = tcall'.time
               /\ TimerAfter.state = IF tcall'.time > 0 THEN "running" ELSE "completed"
               /\ TimerAfter.live = IF tcall'.time > 0 THEN 1 ELSE 0]_vars

\* PUT with T = 0 on the default timer, which exists from construction on, and
\* PUT with T > 0 on a timer absent before, both in one run
C26_Witness ==
    /\ tcall.op = "put"
    /\ tcall.time = 0
    /\ tcall.arg = StrKey(<<0>>)
    /\ timers[defaultTimerId].state = "completed"
    /\ StrKey(<<Letter>>) \in DOMAIN timers
    /\ timers[StrKey(<<Letter>>)].state = "running"

\* C27: pause turns a running timer into stopped and leaves a stopped or completed
\* timer as it is; resume turns a stopped timer with time > 0 into running and
\* leaves state, currentTime and the interval of a running or completed timer as
\* they are; no timer ever has a second interval.
C27_PauseResume ==
    /\ [](\A k \in DOMAIN timers :
             timers[k].live = IF timers[k].intervalId THEN 1 ELSE 0)
    /\ [][(tcall'.op = "pause" /\ tcall'.ret = "ok")
          => /\ TimerBefore.state = "running" =>
                   (TimerAfter.state = "stopped" /\ TimerAfter.live = 0)
             /\ TimerBefore.state # "running" => timers' = timers]_vars
    /\ [][(tcall'.op = "resume" /\ tcall'.ret = "ok")
          => /\ (TimerBefore.state = "stopped" /\ TimerBefore.currentTime > 0) =>
                   (TimerAfter.state = "running" /\ TimerAfter.live = 1)
             /\ TimerBefore.state \in {"running", "completed"} =>
                   (/\ TimerAfter.state = TimerBefore.state
                    /\ TimerAfter.currentTime = TimerBefore.currentTime
                    /\ TimerAfter.live = TimerBefore.live)
             /\ TimerAfter.currentTime = TimerBefore.currentTime]_vars

----------------------------------------------------------------------------
\* Claims about the guard under concurrency (checked under SpecLock and SpecPid)

\* C28: one acquireLock call deletes a stale lock file and retries at most once,
\* and it ends: until it has returned, a step of it is possible.
\* Violated: the retry is a recursive call that deletes and retries again.
C28_AtMostOneRetry ==
    /\ \A p \in Procs : lkProc[p].retries <= 1
    /\ \A p \in Procs : lkProc[p].pc \notin {"idle", "done", "exited"} =>
          ENABLED (LockOpen(p) \/ LockWrite(p) \/ LockClose(p) \/ LockRead(p) \/ LockUnlink(p))

\* C29: of two processes that run acquireLock at the same time, with or without
\* a stale lock file at the start, at most one gets true.
\* Violated: a lock file that is being written, or that the other process found
\* stale, is unlinked.
C29_LockMutualExclusion ==
    ~(\A p \in Procs : lkProc[p].pc = "done" /\ lkProc[p].ret = "true")

\* C30: of two processes that run createPidFile at the same time, at most one
\* gets true.
\* Violated: both find no PID file and both write it.
C30_PidMutualExclusion ==
    ~(\A p \in Procs : pfProc[p].pc = "done" /\ pfProc[p].ret = "true")

\* C31: createPidFile that fails to read PIDFILE or to find the recorded process
\* running treats the record as stale: it does not return before it has written
\* its own pid, so the only return that follows the read or the unlink directly
\* is the refusal
C31_StaleIsOverwritten ==
    [][\A p \in Procs :
          pfProc[p].pc \in {"read", "unlink"} /\ pfProc'[p].pc = "done"
             => pfProc'[p].ret = "false"]_vars

\* C32: when createPidFile returns true, PIDFILE exists and holds the pid of the
\* caller, and the exit handler that removes it is registered
C32_MarkerOfTheHolder ==
    [][\A p \in Procs :
          pfProc[p].ret # "true" /\ pfProc'[p].ret = "true"
             => pfFile'.content = p /\ pfProc'[p].handler]_vars

----------------------------------------------------------------------------
\* Claims about the port probe (checked under SpecProbe)

\* checkPortAvailability has resolved; the call got past it: canStart was true
ProbeResolved(pr) == pr.pc \in {"start", "done"}
ProbePassed(pr) == pr.pc = "start" \/ (pr.pc = "done" /\ pr.ret # "false")

\* what the probe does besides deciding: the real listener is bound only with
\* the test listener closed, and a probe that failed with EADDRINUSE returns
\* false and binds nothing
ProbeOrder ==
    /\ probe'.pc = "start" => \A port \in ProbePorts : portOwner'[port] # "test"
    /\ (probe.pc = "test" /\ probe'.test = "EADDRINUSE")
          => (probe'.ret = "false" /\ probe'.pc = "done" /\ portOwner' = portOwner)
    /\ probe'.ret = "false" => probe'.test = "EADDRINUSE"

\* C33 as stated: the acquisition by port probe succeeds exactly when the test
\* listener could be bound on P; the test listener is closed before the real
\* listener binds P; a test bind that fails with EADDRINUSE makes the call
\* return false with no listener bound
C33_ProbeSucceedsIffBound ==
    [][/\ ProbeResolved(probe') => (ProbePassed(probe') <=> probe'.test = "bound")
       /\ ProbeOrder]_vars

\* C33 amended: the acquisition succeeds exactly when the test bind did not
\* fail with EADDRINUSE, that is, when the test listener was bound and closed or
\* its listen failed with another error
C33_ProbeFailsIffInUse ==
    [][/\ ProbeResolved(probe') => (ProbePassed(probe') <=> probe'.test # "EADDRINUSE")
       /\ ProbeOrder]_vars

\* both outcomes have happened on one port: a call returned false for the port
\* the first call's listener holds
C33_Witness ==
    /\ probe.n = 2
    /\ probe.ret = "false"
    /\ portOwner[probe.port] = "real"

----------------------------------------------------------------------------
\* Claims about the callbacks of the connection listener (checked under SpecCb)

\* C34: no exception leaves the callback of a socket event, whichever user
\* callback threw it (onMessage, onClientConnected, onClientDisconnected), and
\* every message of a read is handed to onMessage whatever the calls before it
\* threw.
\* Violated: only the onDataCallback call stands in a try.
C34_NoErrorEscapes ==
    /\ escaped = "none"
    /\ Cardinality({k \in 1..Len(cbCalls) : cbCalls[k].cb = "onDataCallback"}) = cbSock.parsed

----------------------------------------------------------------------------
\* More claims about the outbound pool (checked under SpecPool)

\* C35: the 'error' or 'close' of an outbound socket removes the pool entry of
\* its peerKey only if the entry is that socket: a live socket in the pool is
\* not removed by the event of another socket dialed to the same peer.
\* Violated: both handlers delete by the key alone.
C35_OnlyOwnEntryRemoved ==
    [][last'.op \in {"error", "close"} =>
          \A p \in PeerKeys :
              (/\ outgoingConnections[p] # 0
               /\ outgoingConnections[p] # last'.sock
               /\ ~Destroyed(outgoingConnections[p]))
                 => outgoingConnections'[p] = outgoingConnections[p]]_vars

\* C36: after closeAllConnections the pool stays empty until connectToPeer is
\* called again, and no outbound socket is live: the step that follows it, if
\* it is not a connectToPeer call, finds and leaves the pool empty and no socket
\* connected.
\* Violated: a dial in flight is in no table, closeAllConnections does not
\* destroy it, and its connect listener enters it in the pool.
C36_PoolStaysEmptyAfterCloseAll ==
    [][(last.op = "closeAll" /\ last'.op # "connect") =>
          /\ \A p \in PeerKeys : outgoingConnections'[p] = 0
          /\ \A s \in SockIds : sockets'[s].status # "open"]_vars

----------------------------------------------------------------------------
\* A claim about the notifications of the registry (checked under SpecReg)

\* the notifications emitted for peerKey k, in order
EventsOf(k) == SelectSeq(emitted, LAMBDA e : ~e.rec.null /\ e.rec.fqdn = k)

\* C37: for each peerKey the notifications alternate peerUp, peerDown, peerUp,
\* ..., starting with peerUp; the registry holds the key exactly when the last
\* notification for it was peerUp; a record without a peerKey (or no record)
\* changes nothing and emits nothing.
C37_UpDownAlternate ==
    /\ [](\A k \in Fqdns \ {""} :
            /\ \A i \in 1..Len(EventsOf(k)) :
                   EventsOf(k)[i].ev = IF i % 2 = 1 THEN "peerUp" ELSE "peerDown"
            /\ MapHas(peers, k) <=> (Len(EventsOf(k)) % 2 = 1))
    /\ [](\A i \in 1..Len(emitted) : HasFqdn(emitted[i].rec))
    /\ [][(call' # call /\ ~HasFqdn(call'.arg)) => (peers' = peers /\ emitted' = emitted)]_vars

\* a peer came up and went down, and a record without a peerKey was offered
\* last
C37_Witness ==
    /\ \E k \in Fqdns \ {""} : Len(EventsOf(k)) = 2 /\ ~MapHas(peers, k)
    /\ ~HasFqdn(call.arg)
    /\ call.op = "add"

----------------------------------------------------------------------------
\* More claims about P2PService (checked under SpecSvc)

\* C38: a peerUp notification makes one connect attempt, however often start()
\* was called: one peerUp listener is subscribed when it is emitted, and at most
\* one socket is dialed for it.
\* Violated: every start() subscribes one more listener and stop() removes none.
C38_OneConnectPerPeerUp ==
    [][(Len(emitted') > Len(emitted) /\ emitted'[Len(emitted')].ev = "peerUp") =>
          /\ subs = 1
          /\ Len(sockets') <= Len(sockets) + 1]_vars

\* a step of stop(): the call up to its await, or its resumption
StopStep ==
    /\ svc'.op \in {"stop", "stopped"}
    /\ svc' # svc \/ stopCbs' # stopCbs

\* C39: stop() leaves the registry, the peerUp and peerDown subscriptions, the
\* TCP listener and the marker of the duplicate guard as they are.
C39_StopFrame ==
    [][StopStep =>
          /\ <<peers, emitted>>' = <<peers, emitted>>
          /\ subs' = subs
          /\ listening' = listening
          /\ <<lockFile, pidFile, exitHandlers>>' = <<lockFile, pidFile, exitHandlers>>]_vars

\* stop() has run to its end with a peer in the registry, a listener subscribed,
\* the TCP listener up and the PID file written
C39_Witness ==
    /\ svc.op = "stopped"
    /\ Len(peers) > 0
    /\ subs > 0
    /\ listening # {}
    /\ pidFile = Self
    /\ bonjourInstance = 0

----------------------------------------------------------------------------
\* A claim about the states of a countdown (checked under SpecCountdown)

\* C40: after any sequence of timer operations a timer in state running has
\* currentTime > 0 and its interval set; no timer is running with currentTime 0.
\* Violated: multiply by 0 sets currentTime to 0 and leaves state and interval.
C40_RunningHasTimeLeft ==
    \A k \in DOMAIN timers :
        timers[k].state = "running" =>
            /\ timers[k].currentTime > 0
            /\ timers[k].intervalId
            /\ timers[k].live = 1
====
